---- MODULE Spec2Model ----
(***************************************************************************)
(* Model of the orchestrator of the AI coaching backend                    *)
(* (backend/src/ai_coaching/agents/orchestrator.py) together with the      *)
(* agent registry it dispatches through (agents/registry.py).              *)
(*                                                                         *)
(* The orchestrator runs on one asyncio event loop.  A coroutine runs      *)
(* without interruption up to its next suspending await, so one action of  *)
(* this model is one such uninterrupted stretch.  The only awaits of the   *)
(* orchestrator that suspend are agent.process_task (the worker), gather   *)
(* (the join of a level of a parallel workflow) and the sleep of the       *)
(* monitoring loop; _enqueue_task, _process_queue and                      *)
(* _check_task_dependencies are coroutines with no suspending await.       *)
(* asyncio.create_task only puts the new coroutine on the loop's ready     *)
(* list; loop_ready is that list.                                          *)
(***************************************************************************)
EXTENDS Integers, Sequences, FiniteSets, TLC

\* ---------------------------------------------------------------- bounds
\* Number of OrchestratedTask objects ever constructed under Spec and
\* SpecWorkflow.
MaxTasks == 3
\* Number of OrchestratedTask objects ever constructed under SpecQueue.
MaxQueueTasks == 4
\* Number of Workflow objects ever constructed.
MaxWorkflows == 1
\* Largest number of task definitions in one workflow definition.
MaxWfTasks == 3
\* config['max_concurrent_tasks'], scaled down (the default is 10).
max_concurrent_tasks == 2
\* Number of OrchestratedTask objects and of Workflow objects ever
\* constructed under SpecRequests.
MaxRequestTasks == 2
MaxRequestWorkflows == 2
\* Number of OrchestratedTask objects ever constructed under SpecDeps.
MaxDepTasks == 3
\* Number of OrchestratedTask objects ever constructed under SpecShutdown.
MaxShutdownTasks == 4
\* Number of Workflow and OrchestratedTask objects ever constructed under
\* SpecCounters.
MaxCounterWorkflows == 3
MaxCounterTasks == 2
\* Number of Workflow objects ever constructed under SpecStrategies, and of
\* task definitions of each.
MaxStrategyWorkflows == 2
MaxStrategyTasks == 2
\* Number of task definitions of the workflow definition of SpecLevels.
MaxLevelTasks == 3
\* Number of OrchestratedTask objects ever constructed under SpecRetry.
MaxRetryTasks == 3
\* Number of OrchestratedTask objects ever constructed under SpecLive.
MaxLiveTasks == 3
\* Number of OrchestratedTask objects ever constructed under SpecMetrics.
MaxMetricTasks == 6
\* Number of different processing times a worker reports under SpecMetrics.
MaxProcessingTimes == 3

\* ------------------------------------------------------------- constants
\* AgentType values the model uses: a monitored capability and the
\* orchestrator's own type, for which _initialize_agent keeps no metrics.
MonitoredTypes == {"email"}
AgentTypes == MonitoredTypes \cup {"orchestrator"}

\* OrchestratedTask.max_retries when the request names none.
DefaultMaxRetries == 3

\* TaskPriority values.
TaskPriorities == {"urgent", "high", "normal", "low", "background"}

\* priority_order of _enqueue_task.
PriorityOrder(p) ==
    CASE p = "urgent" -> 1
      [] p = "high" -> 2
      [] p = "normal" -> 3
      [] p = "low" -> 4
      [] p = "background" -> 5

\* What a worker's process_task can do: return an output with success True,
\* return one with success False, or raise.
WorkerBehaviours == {"success", "failure", "raise"}

VARIABLES
    is_healthy,     \* _status.is_healthy: False once shutdown() has run
    tasks,          \* every OrchestratedTask constructed so far, by task id
    task_queue,     \* _task_queue: task ids
    active_tasks,   \* _active_tasks: keys
    loop_ready,     \* the event loop's ready list: coroutines created, not yet started
    agents,         \* AgentRegistry._agents: keys
    agent_metrics,  \* _agent_metrics
    workflows,      \* every Workflow constructed so far, by workflow id
    total_workflows,
    completed_workflows,
    failed_workflows,
    response        \* what the last finished request returned: the request type,
                    \* BaseAgentOutput.success and result_data["status"]

vars == <<is_healthy, tasks, task_queue, active_tasks, loop_ready, agents, agent_metrics,
          workflows, total_workflows, completed_workflows, failed_workflows,
          response>>

\* ---------------------------------------------------------------- helpers
Range(s) == {s[i] : i \in 1..Len(s)}

RemoveAt(s, i) == SubSeq(s, 1, i - 1) \o SubSeq(s, i + 1, Len(s))

InsertAt(s, i, x) == SubSeq(s, 1, i) \o <<x>> \o SubSeq(s, i + 1, Len(s))

TaskIds == 1..Len(tasks)

\* OrchestratedTask(...) as _delegate_task and _execute_workflow construct it.
\* context is the set of keys of the task's own context dictionary: the
\* model validates the Dict field, so the task holds a copy of the
\* dictionary ctx it is constructed with, as that dictionary was then.
\* returned and calls are history: the output _execute_single_task returned
\* for the task, and the number of agent.process_task calls made for it.
NewTask(wf, a, p, deps, ctx, retries) ==
    [parent_workflow_id |-> wf, agent_type |-> a, priority |-> p,
     dependencies |-> deps, context |-> ctx, status |-> "pending",
     result |-> "none", last_error |-> FALSE, retry_count |-> 0,
     max_retries |-> retries, returned |-> "none", calls |-> 0]

\* BaseAgentOutput.success of an output, by its kind: "update" is a
\* successful output whose result_data has a "context_updates" entry.
Success(o) == o \in {"success", "update"}

\* The keys of result_data["context_updates"] of the output o of task t: a
\* worker that gives updates gives one key of its own, named by its task.
ContextUpdates(o, t) == IF o = "update" THEN {t} ELSE {}

\* BaseAgentOutput.error_message of an output of kind o for a task addressed
\* to agent type a, as its sequence of words: f"Agent {a} not found" for the
\* output of the registry miss, str(e) for a fault, the worker's own message
\* for the failure it reports, None otherwise.
ErrorMessage(o, a) ==
    CASE o = "not_found" -> <<"Agent", a, "not", "found">>
      [] o = "error" -> <<"str(e)">>
      [] o = "failure" -> <<"worker", "message">>
      [] OTHER -> <<>>

NoResponse == [op |-> "none", success |-> TRUE, status |-> "none"]

\* The BaseAgentOutput of the except clause of process_task for a request of
\* type op: success False, error the kind of str(e).
ErrorResponse(op, e) ==
    [op |-> op, success |-> FALSE, status |-> "error", error |-> e]

\* AgentType(value) that accepts any value.
AnyAgentType(a) == TRUE

\* AgentType(value) accepts the value (it raises ValueError otherwise).
ValidAgentType(a) == a \in AgentTypes

\* ------------------------------------------------------------ the queue
\* The insertion index _enqueue_task computes for a task of priority p.
RECURSIVE InsertIndexFrom(_, _, _, _)
InsertIndexFrom(q, T, p, i) ==
    IF i > Len(q) THEN Len(q)
    ELSE IF PriorityOrder(p) < PriorityOrder(T[q[i]].priority) THEN i - 1
    ELSE InsertIndexFrom(q, T, p, i + 1)

\* A slip of _enqueue_task: <= in place of <, which puts the new task in front
\* of the queued tasks of its own priority.
InsertIndexUnstable(q, T, p) ==
    Cardinality({i \in 1..Len(q) : PriorityOrder(T[q[i]].priority) < PriorityOrder(p)})

\* The number of queued tasks the new task is inserted behind.
InsertIndex(q, T, p) == InsertIndexFrom(q, T, p, 1)

\* _enqueue_task: the queue after task t (already in T) is inserted.
EnqueueTask(q, T, t) == InsertAt(q, InsertIndex(q, T, T[t].priority), t)

\* A slip of _check_task_dependencies: the active set is never consulted.
NoDependencyCheck(T, t, active) == TRUE

\* _check_task_dependencies that looks up the outcome of the dependency: a
\* dependency holds the task back until it has completed.
HeldUntilCompleted(T, t, active) ==
    \A d \in T[t].dependencies : d \in 1..Len(T) /\ T[d].status = "completed"

\* _check_task_dependencies(task, None): outside a workflow a dependency
\* holds the task back only while its id is a key of _active_tasks.
CheckAdHocDependencies(T, t, active) ==
    \A d \in T[t].dependencies : d \notin active

\* The scan of _process_queue: the index of the first queued task whose
\* dependencies are met, 0 when there is none.
RECURSIVE FirstReadyFrom(_, _, _, _)
FirstReadyFrom(q, T, active, i) ==
    IF i > Len(q) THEN 0
    ELSE IF CheckAdHocDependencies(T, q[i], active) THEN i
    ELSE FirstReadyFrom(q, T, active, i + 1)

\* A slip of the scan: the last ready task is taken, not the first.
LastReady(q, T, active) ==
    LET ready == {i \in 1..Len(q) : \A d \in T[q[i]].dependencies : d \notin active}
    IN IF ready = {} THEN 0 ELSE CHOOSE i \in ready : \A j \in ready : j <= i

FirstReady(q, T, active) == FirstReadyFrom(q, T, active, 1)

\* _process_queue.  The loop never suspends, so _active_tasks is the same at
\* every iteration: the coroutines it creates start only later.
RECURSIVE ProcessQueueFrom(_, _, _, _)
ProcessQueueFrom(q, T, active, popped) ==
    IF Cardinality(active) < max_concurrent_tasks /\ q # <<>>
    THEN LET i == FirstReady(q, T, active)
         IN IF i = 0 THEN [queue |-> q, popped |-> popped]
            ELSE ProcessQueueFrom(RemoveAt(q, i), T, active, Append(popped, q[i]))
    ELSE [queue |-> q, popped |-> popped]

ProcessQueue(q, T, active) == ProcessQueueFrom(q, T, active, <<>>)

\* asyncio.create_task(self._execute_single_task(t)) for each popped task.
StartEntries(popped) == [i \in 1..Len(popped) |-> <<"start", popped[i]>>]

\* ------------------------------------------------------------ the registry
\* A slip of the lookup: an agent is always found.
AgentAlwaysFound(a) == TRUE

\* AgentRegistry.get_agent(agent_type) is not None.
GetAgent(a) == a \in agents

\* AgentRegistry.register_agent
RegisterAgent(a) ==
    /\ a \notin agents
    /\ agents' = agents \cup {a}
    /\ UNCHANGED <<is_healthy, tasks, task_queue, active_tasks, loop_ready, agent_metrics,
                   workflows, total_workflows, completed_workflows,
                   failed_workflows, response>>

\* AgentRegistry.unregister_agent
UnregisterAgent(a) ==
    /\ a \in agents
    /\ agents' = agents \ {a}
    /\ UNCHANGED <<is_healthy, tasks, task_queue, active_tasks, loop_ready, agent_metrics,
                   workflows, total_workflows, completed_workflows,
                   failed_workflows, response>>

\* ------------------------------------------------------------ metrics
\* The float fields of AgentMetrics are exact fractions <<numerator,
\* denominator>> in lowest terms with a positive denominator: the model
\* computes what the code's expressions denote, without float rounding.
RECURSIVE Gcd(_, _)
Gcd(a, b) == IF b = 0 THEN a ELSE Gcd(b, a % b)

Abs(n) == IF n < 0 THEN -n ELSE n

Frac(n, d) ==
    LET g == Gcd(Abs(n), d)
    IN IF g = 0 THEN <<0, 1>> ELSE <<n \div g, d \div g>>

FracLeq(x, y) == x[1] * y[2] <= y[1] * x[2]

FracMin(x, y) == IF FracLeq(x, y) THEN x ELSE y

\* AgentMetrics() as _initialize_agent constructs it.  recorded is history:
\* the processing_time of every output the metrics were updated with.
NewAgentMetrics ==
    [total_tasks |-> 0, successful_tasks |-> 0, failed_tasks |-> 0,
     avg_processing_time |-> <<0, 1>>, current_load |-> 0,
     health_score |-> <<1, 1>>, recorded |-> <<>>]

\* avg_processing_time that gives the old average and the new time the
\* same weight.
AvgUnweighted(avg, total, pt) == Frac(avg[1] + pt * avg[2], avg[2] * 2)

\* The new avg_processing_time, from the old one, the incremented
\* total_tasks and result.processing_time.
AvgProcessingTime(avg, total, pt) ==
    IF total = 1 THEN Frac(pt, 1)
    ELSE Frac(avg[1] * (total - 1) + pt * avg[2], avg[2] * total)

\* health_score without the cap at 1.0.
HealthUncapped(successful, total) == Frac(successful * 6, total * 5)

\* The new health_score: min(1.0, success_rate * 1.2).
HealthScore(successful, total) ==
    LET success_rate == Frac(successful, total)
    IN FracMin(<<1, 1>>, Frac(success_rate[1] * 6, success_rate[2] * 5))

\* _update_agent_metrics that forgets the failed_tasks counter.
CountsOnlySuccess(M, a, o, pt) ==
    IF a \notin DOMAIN M THEN M
    ELSE [M EXCEPT ![a] =
            [@ EXCEPT !.total_tasks = @ + 1,
                      !.successful_tasks = IF Success(o) THEN @ + 1 ELSE @,
                      !.recorded = Append(@, pt)]]

\* _update_agent_metrics with an output of kind o and processing_time pt
\* (nothing for a type with no metrics).
UpdateAgentMetrics(M, a, o, pt) ==
    IF a \notin DOMAIN M THEN M
    ELSE LET total == M[a].total_tasks + 1
             successful == M[a].successful_tasks + (IF Success(o) THEN 1 ELSE 0)
         IN [M EXCEPT ![a] =
                [@ EXCEPT !.total_tasks = total,
                          !.successful_tasks = successful,
                          !.failed_tasks = IF Success(o) THEN @ ELSE @ + 1,
                          !.avg_processing_time = AvgProcessingTime(@, total, pt),
                          !.health_score = HealthScore(successful, total),
                          !.recorded = Append(@, pt)]]

\* ------------------------------------------------------------ requests
\* process_task("delegate_task"); retries is task_data["max_retries"].  An
\* agent type that AgentType rejects ends the request before the task exists.
DelegateTaskWith(a, p, deps, retries) ==
    IF ~ValidAgentType(a)
    THEN /\ response' = ErrorResponse("delegate_task", "unknown_agent")
         /\ UNCHANGED <<is_healthy, tasks, task_queue, active_tasks, loop_ready, agents,
                        agent_metrics, workflows, total_workflows,
                        completed_workflows, failed_workflows>>
    ELSE /\ LET t == Len(tasks) + 1
                T == Append(tasks, NewTask(0, a, p, deps, {}, retries))
                r == ProcessQueue(EnqueueTask(task_queue, T, t), T, active_tasks)
            IN /\ tasks' = T
               /\ task_queue' = r.queue
               /\ loop_ready' = loop_ready \o StartEntries(r.popped)
               /\ response' = [op |-> "delegate_task", success |-> TRUE,
                               status |-> T[t].status]
         /\ UNCHANGED <<is_healthy, active_tasks, agents, agent_metrics, workflows,
                        total_workflows, completed_workflows, failed_workflows>>

\* The same request when task_data has no "max_retries" entry.
DelegateTask(a, p, deps) == DelegateTaskWith(a, p, deps, DefaultMaxRetries)

\* ------------------------------------------------------------ one task
\* The output _execute_single_task builds from what the worker did: the
\* worker's own output, or the error_result of the except clause.
OutcomeOf(b) == IF b = "raise" THEN "error" ELSE b

\* processing_time of that output, when the worker's own output has pt.
ProcessingTimeOf(b, pt) == IF b = "raise" THEN 0 ELSE pt

\* _execute_single_task up to its await: status, started_at, _active_tasks.
BeginTask(T, t) ==
    [T EXCEPT ![t].status = "running", ![t].calls = @ + 1]

\* _execute_single_task without its except clause: a fault leaves the task
\* as it was when the worker was called.
FinishWithoutExcept(T, t, b) ==
    IF b = "raise" THEN T
    ELSE [T EXCEPT ![t].status = IF Success(b) THEN "completed" ELSE "failed",
                   ![t].result = b, ![t].returned = b]

\* _execute_single_task that puts a failed task back to pending while it
\* has retries left.
FinishRetries(T, t, b) ==
    IF Success(b)
    THEN [T EXCEPT ![t].status = "completed", ![t].result = b, ![t].returned = b]
    ELSE IF T[t].retry_count < T[t].max_retries
    THEN [T EXCEPT ![t].status = "pending", ![t].retry_count = @ + 1,
                   ![t].returned = OutcomeOf(b)]
    ELSE [T EXCEPT ![t].status = "failed", ![t].result = OutcomeOf(b),
                   ![t].returned = OutcomeOf(b)]

\* _execute_single_task after its await: the try body when the worker
\* returned, the except clause when it raised.
FinishTask(T, t, b) ==
    IF b = "raise"
    THEN [T EXCEPT ![t].status = "failed", ![t].last_error = TRUE,
                   ![t].result = "error", ![t].returned = "error"]
    ELSE [T EXCEPT ![t].status = IF Success(b) THEN "completed" ELSE "failed",
                   ![t].result = b, ![t].returned = b]

\* The early return of _execute_single_task when the registry has no agent:
\* an output is returned and nothing of the task is touched.
AgentNotFound(T, t) == [T EXCEPT ![t].returned = "not_found"]

\* ------------------------------------------------------------ workflows
\* Workflow(...) as _execute_workflow constructs it, stored in _workflows.
\* index, level and pending are the position of the workflow's coroutine:
\* the declared index of the sequential task in flight, the level being
\* gathered, and the children of that level that have not returned yet.
\* shared_context is the set of keys of the shared context dictionary.
\* ended is history: whether the workflow's coroutine has ended, and whether
\* more than the retention window has passed since.
NewWorkflow(strategy, error_strategy, ids) ==
    [execution_strategy |-> strategy, error_strategy |-> error_strategy,
     status |-> "pending", tasks |-> ids, results |-> {}, failed_tasks |-> {},
     shared_context |-> {}, completed_at |-> "none", stored |-> TRUE,
     ended |-> "none", index |-> 0, level |-> -1, pending |-> {}]

\* _execute_workflow once the workflow is stored: status and started_at.
RunWorkflow(W) == [W EXCEPT !.status = "running"]

\* _check_task_dependencies(task, workflow): every dependency id is a key of
\* workflow.results and its output there has success True.
CheckWorkflowDependencies(T, t, W) ==
    \A d \in T[t].dependencies : d \in W.results /\ Success(T[d].returned)

\* A slip of the fail_fast test: the error strategy is never honoured.
NeverAborts(W, o) == FALSE

\* The fail_fast test of _execute_sequential_workflow.
AbortsWorkflow(W, o) == ~Success(o) /\ W.error_strategy = "fail_fast"

\* A slip of _execute_workflow: completed_at is stamped and the status is
\* left as it is.
StampedWhileRunning(W) ==
    [W EXCEPT !.completed_at = "recent", !.ended = "recent",
              !.index = 0, !.level = -1]

\* The end of _execute_workflow's try body.
WorkflowCompleted(W) ==
    [W EXCEPT !.status = "completed", !.completed_at = "recent",
              !.ended = "recent", !.index = 0, !.level = -1]

\* The except clause of _execute_workflow: completed_at is not set.
WorkflowFailed(W) ==
    [W EXCEPT !.status = "failed", !.ended = "recent", !.index = 0, !.level = -1]

\* _execute_sequential_workflow from declared index i on, up to the next
\* suspension: started is the task whose worker is now awaited, 0 if the
\* workflow ended.
RECURSIVE SequentialFrom(_, _, _)
SequentialFrom(T, W, i) ==
    IF i > Len(W.tasks)
    THEN [tasks |-> T, wf |-> WorkflowCompleted(W), started |-> 0]
    ELSE LET t == W.tasks[i]
         IN IF ~CheckWorkflowDependencies(T, t, W)
            THEN SequentialFrom(T, W, i + 1)
            ELSE IF ~GetAgent(T[t].agent_type)
            THEN LET T1 == AgentNotFound(T, t)
                     W1 == [W EXCEPT !.results = @ \cup {t}]
                 IN IF AbortsWorkflow(W1, "not_found")
                    THEN [tasks |-> T1, wf |-> WorkflowFailed(W1), started |-> 0]
                    ELSE SequentialFrom(T1, W1, i + 1)
            ELSE [tasks |-> BeginTask(T, t), wf |-> [W EXCEPT !.index = i],
                  started |-> t]

\* A sequential workflow that comes back, after each task, to the first task
\* it skipped whose dependencies are now met.
SequentialRevisits(T, W, t) ==
    LET W1 == [W EXCEPT !.results = @ \cup {t},
                        !.shared_context = @ \cup ContextUpdates(T[t].returned, t)]
        skipped == {i \in 1..Len(W.tasks) :
                       /\ T[W.tasks[i]].calls = 0
                       /\ T[W.tasks[i]].returned = "none"
                       /\ CheckWorkflowDependencies(T, W.tasks[i], W1)}
    IN IF AbortsWorkflow(W1, T[t].returned)
       THEN [tasks |-> T, wf |-> WorkflowFailed(W1), started |-> 0]
       ELSE IF skipped # {}
       THEN SequentialFrom(T, W1, CHOOSE i \in skipped : \A j \in skipped : i <= j)
       ELSE SequentialFrom(T, W1, W.index + 1)

\* _execute_sequential_workflow when the worker of the task in flight has
\* returned: the result is stored, then fail_fast or the next tasks.
SequentialAfter(T, W, t) ==
    LET W1 == [W EXCEPT !.results = @ \cup {t},
                        !.shared_context = @ \cup ContextUpdates(T[t].returned, t)]
    IN IF AbortsWorkflow(W1, T[t].returned)
       THEN [tasks |-> T, wf |-> WorkflowFailed(W1), started |-> 0]
       ELSE SequentialFrom(T, W1, W.index + 1)

\* The dependency ids _calculate_task_level follows: those in task_map.
MappedDeps(T, S, t) == T[t].dependencies \cap S

\* The tasks reachable from the tasks of F along mapped dependencies.
RECURSIVE ReachableFrom(_, _, _)
ReachableFrom(T, S, F) ==
    LET G == F \cup UNION {MappedDeps(T, S, t) : t \in F}
    IN IF G = F THEN F ELSE ReachableFrom(T, S, G)

\* _calculate_task_level never returns on a dependency cycle: the recursion
\* ends in a RecursionError.
Cyclic(T, S) ==
    \E t \in S : \E d \in MappedDeps(T, S, t) : t \in ReachableFrom(T, S, {d})

SetMax(X) == CHOOSE x \in X : \A y \in X : y <= x

SetMin(X) == CHOOSE x \in X : \A y \in X : x <= y

\* A slip of _calculate_task_level: the dependencies are not followed.
LevelZero(T, S, t) == 0

\* A slip of _calculate_task_level: the smallest level of the dependencies
\* is taken, not the largest.
RECURSIVE LevelByFirstDependency(_, _, _)
LevelByFirstDependency(T, S, t) ==
    IF T[t].dependencies = {} THEN 0
    ELSE IF MappedDeps(T, S, t) = {} THEN 0
    ELSE 1 + SetMin({LevelByFirstDependency(T, S, d) : d \in MappedDeps(T, S, t)})

\* _calculate_task_level (the memo does not change the value).
RECURSIVE CalculateTaskLevel(_, _, _)
CalculateTaskLevel(T, S, t) ==
    IF T[t].dependencies = {} THEN 0
    ELSE IF MappedDeps(T, S, t) = {} THEN 0
    ELSE 1 + SetMax({CalculateTaskLevel(T, S, d) : d \in MappedDeps(T, S, t)})

\* _calculate_dependency_levels: the keys, and the list of one level in
\* declared order.
LevelKeys(T, W) == {CalculateTaskLevel(T, Range(W.tasks), t) : t \in Range(W.tasks)}

LevelTasks(T, W, k) ==
    SelectSeq(W.tasks, LAMBDA t : CalculateTaskLevel(T, Range(W.tasks), t) = k)

\* The loop of _execute_parallel_workflow after level k: the next key of
\* sorted(dependency_levels.keys()), -1 when there is none.
NextLevel(T, W, k) ==
    LET later == {l \in LevelKeys(T, W) : l > k}
    IN IF later = {} THEN -1 ELSE SetMin(later)

\* _execute_parallel_workflow from the level after k on, up to its gather:
\* entries are the coroutines gather puts on the loop's ready list.
ParallelFrom(T, W, k) ==
    LET n == NextLevel(T, W, k)
    IN IF n = -1
       THEN [wf |-> WorkflowCompleted(W), entries |-> <<>>]
       ELSE [wf |-> [W EXCEPT !.level = n, !.pending = Range(LevelTasks(T, W, n))],
             entries |-> StartEntries(LevelTasks(T, W, n))]

\* A slip of the gather: the workflow's coroutine goes on as soon as one
\* child has returned.
GatherEndsOnFirst(W, w, t) ==
    [wf |-> [W EXCEPT !.pending = {}],
     entries |-> IF W.pending = {} THEN <<>> ELSE << <<"resume", w>> >>]

\* A child of a gather has returned: when it was the last one the workflow's
\* coroutine is put on the ready list.
ChildReturned(W, w, t) ==
    [wf |-> [W EXCEPT !.pending = @ \ {t}],
     entries |-> IF W.pending \ {t} = {} THEN << <<"resume", w>> >> ELSE <<>>]

\* The counters and the response of _execute_workflow / process_task once
\* the workflow's coroutine has ended.
Terminal(W) == W.status \in {"completed", "failed", "cancelled"}

\* The dictionary _execute_workflow returns: completed_tasks is the number of
\* outputs stored in workflow.results.
WorkflowSummary(W) ==
    [status |-> W.status, completed_tasks |-> Cardinality(W.results),
     total_tasks |-> Len(W.tasks)]

\* process_task that reports success for a workflow that ended failed.
WorkflowAlwaysSucceeds(W) ==
    [op |-> "execute_workflow", success |-> TRUE, status |-> W.status]

\* What process_task returns for the request once _execute_workflow has
\* returned or raised: the error is the kind of the exception that ended
\* the workflow.
WorkflowResponse(W) ==
    IF W.status = "completed"
    THEN [op |-> "execute_workflow", success |-> TRUE, status |-> "completed",
          result |-> WorkflowSummary(W)]
    ELSE ErrorResponse("execute_workflow",
            CASE W.execution_strategy = "sequential" -> "task_failed"
              [] W.execution_strategy = "parallel" -> "recursion"
              [] OTHER -> "unknown_strategy")

\* A slip of the except clause of _execute_workflow: the failed workflow is
\* not counted.
FailureUncounted(W) ==
    /\ completed_workflows' = completed_workflows + (IF W.status = "completed" THEN 1 ELSE 0)
    /\ failed_workflows' = failed_workflows
    /\ response' = IF Terminal(W) THEN WorkflowResponse(W) ELSE response

\* The end of _execute_workflow, if the workflow has ended: the counter of
\* its status, and the answer of the request.
WorkflowEnds(W) ==
    /\ completed_workflows' = completed_workflows + (IF W.status = "completed" THEN 1 ELSE 0)
    /\ failed_workflows' = failed_workflows + (IF W.status = "failed" THEN 1 ELSE 0)
    /\ response' = IF Terminal(W) THEN WorkflowResponse(W) ELSE response

\* ------------------------------------------------------------ the loop
HeadIs(kind) == loop_ready # <<>> /\ Head(loop_ready)[1] = kind

WorkflowOf(t) == tasks[t].parent_workflow_id

IsParallelChild(t) ==
    WorkflowOf(t) # 0 /\ workflows[WorkflowOf(t)].execution_strategy = "parallel"

\* The loop starts the coroutine at the head of its ready list:
\* _execute_single_task(t) runs up to its await, or to its early return.
StartTask ==
    /\ HeadIs("start")
    /\ LET t == Head(loop_ready)[2]
           w == WorkflowOf(t)
       IN IF GetAgent(tasks[t].agent_type)
          THEN /\ tasks' = BeginTask(tasks, t)
               /\ active_tasks' = active_tasks \cup {t}
               /\ loop_ready' = Tail(loop_ready)
               /\ UNCHANGED workflows
          ELSE /\ tasks' = AgentNotFound(tasks, t)
               /\ UNCHANGED active_tasks
               /\ IF IsParallelChild(t)
                  THEN LET r == ChildReturned(workflows[w], w, t)
                       IN /\ workflows' = [workflows EXCEPT ![w] = r.wf]
                          /\ loop_ready' = Tail(loop_ready) \o r.entries
                  ELSE /\ loop_ready' = Tail(loop_ready)
                       /\ UNCHANGED workflows
    /\ UNCHANGED <<is_healthy, task_queue, agents, agent_metrics, total_workflows,
                   completed_workflows, failed_workflows, response>>

\* The worker of an active task returns an output whose processing_time is
\* pt, or raises: the rest of _execute_single_task, then whatever awaited it.
WorkerReturnsAfter(t, b, pt) ==
    /\ t \in active_tasks
    /\ LET T == FinishTask(tasks, t, b)
           w == WorkflowOf(t)
       IN /\ agent_metrics' = UpdateAgentMetrics(agent_metrics, tasks[t].agent_type,
                                                 OutcomeOf(b), ProcessingTimeOf(b, pt))
          /\ IF w = 0
             THEN /\ tasks' = T
                  /\ active_tasks' = active_tasks \ {t}
                  /\ UNCHANGED <<loop_ready, workflows, completed_workflows,
                                 failed_workflows, response>>
             ELSE IF workflows[w].execution_strategy = "sequential"
             THEN LET r == SequentialAfter(T, workflows[w], t)
                  IN /\ tasks' = r.tasks
                     /\ active_tasks' = (active_tasks \ {t}) \cup
                            (IF r.started = 0 THEN {} ELSE {r.started})
                     /\ workflows' = [workflows EXCEPT ![w] = r.wf]
                     /\ WorkflowEnds(r.wf)
                     /\ UNCHANGED loop_ready
             ELSE LET r == ChildReturned(workflows[w], w, t)
                  IN /\ tasks' = T
                     /\ active_tasks' = active_tasks \ {t}
                     /\ workflows' = [workflows EXCEPT ![w] = r.wf]
                     /\ loop_ready' = loop_ready \o r.entries
                     /\ UNCHANGED <<completed_workflows, failed_workflows, response>>
    /\ UNCHANGED <<is_healthy, task_queue, agents, total_workflows>>

\* The same step with a worker whose outputs report no processing time.
WorkerReturns(t, b) == WorkerReturnsAfter(t, b, 0)

\* The loop resumes _execute_parallel_workflow after its gather: the results
\* of the level are stored (none of them is an exception, _execute_single_task
\* catches them all), then the next level is gathered or the workflow ends.
ResumeWorkflow ==
    /\ HeadIs("resume")
    /\ LET w == Head(loop_ready)[2]
           done == Range(LevelTasks(tasks, workflows[w], workflows[w].level))
           W == [workflows[w] EXCEPT
                    !.results = @ \cup done,
                    !.shared_context = @ \cup
                        UNION {ContextUpdates(tasks[t].returned, t) : t \in done}]
           r == ParallelFrom(tasks, W, W.level)
       IN /\ workflows' = [workflows EXCEPT ![w] = r.wf]
          /\ loop_ready' = Tail(loop_ready) \o r.entries
          /\ WorkflowEnds(r.wf)
    /\ UNCHANGED <<is_healthy, tasks, task_queue, active_tasks, agents, agent_metrics,
                   total_workflows>>

\* _execute_workflow once every task definition has a valid agent type, up
\* to its first suspension.  defs[i] is the i-th task definition; a
\* dependency j > 0 is the id of the j-th task of this same workflow, the
\* dependency 0 is an id that no task has.
StoreAndRunWorkflow(strategy, error_strategy, defs) ==
    /\ LET w == Len(workflows) + 1
           base == Len(tasks)
           ids == [i \in 1..Len(defs) |-> base + i]
           W0 == NewWorkflow(strategy, error_strategy, ids)
           T == tasks \o [i \in 1..Len(defs) |->
                            NewTask(w, defs[i].agent_type, "normal",
                                    {IF j = 0 THEN 0 ELSE base + j : j \in defs[i].dependencies},
                                    W0.shared_context, DefaultMaxRetries)]
           W == RunWorkflow(W0)
       IN /\ total_workflows' = total_workflows + 1
          /\ IF strategy = "sequential"
             THEN LET r == SequentialFrom(T, W, 1)
                  IN /\ tasks' = r.tasks
                     /\ active_tasks' = active_tasks \cup
                            (IF r.started = 0 THEN {} ELSE {r.started})
                     /\ workflows' = Append(workflows, r.wf)
                     /\ WorkflowEnds(r.wf)
                     /\ UNCHANGED loop_ready
             ELSE IF strategy = "parallel"
             THEN LET r == IF Cyclic(T, Range(ids))
                           THEN [wf |-> WorkflowFailed(W), entries |-> <<>>]
                           ELSE ParallelFrom(T, W, -1)
                  IN /\ tasks' = T
                     /\ workflows' = Append(workflows, r.wf)
                     /\ loop_ready' = loop_ready \o r.entries
                     /\ WorkflowEnds(r.wf)
                     /\ UNCHANGED active_tasks
             ELSE /\ tasks' = T
                  /\ workflows' = Append(workflows, WorkflowFailed(W))
                  /\ WorkflowEnds(WorkflowFailed(W))
                  /\ UNCHANGED <<active_tasks, loop_ready>>
    /\ UNCHANGED <<is_healthy, task_queue, agents, agent_metrics>>

\* process_task("execute_workflow"): a task definition whose agent type
\* AgentType rejects ends the request while the tasks are constructed,
\* before the workflow is stored or counted.
ExecuteWorkflow(strategy, error_strategy, defs) ==
    IF \E i \in 1..Len(defs) : ~ValidAgentType(defs[i].agent_type)
    THEN /\ response' = ErrorResponse("execute_workflow", "unknown_agent")
         /\ UNCHANGED <<is_healthy, tasks, task_queue, active_tasks, loop_ready, agents,
                        agent_metrics, workflows, total_workflows,
                        completed_workflows, failed_workflows>>
    ELSE StoreAndRunWorkflow(strategy, error_strategy, defs)

\* The dictionary _monitor_agents returns.
MonitorResult ==
    [agent_metrics |-> [a \in DOMAIN agent_metrics |->
        [total_tasks |-> agent_metrics[a].total_tasks,
         success_rate |-> Frac(agent_metrics[a].successful_tasks,
                               IF agent_metrics[a].total_tasks < 1 THEN 1
                               ELSE agent_metrics[a].total_tasks),
         avg_processing_time |-> agent_metrics[a].avg_processing_time,
         current_load |-> agent_metrics[a].current_load,
         health_score |-> agent_metrics[a].health_score]],
     orchestrator_stats |->
        [total_workflows |-> total_workflows,
         completed_workflows |-> completed_workflows,
         failed_workflows |-> failed_workflows,
         success_rate |-> Frac(completed_workflows,
                               IF total_workflows < 1 THEN 1 ELSE total_workflows),
         active_tasks |-> Cardinality(active_tasks),
         queued_tasks |-> Len(task_queue),
         active_workflows |-> Cardinality({w \in 1..Len(workflows) :
                                  /\ workflows[w].stored
                                  /\ workflows[w].status = "running"})]]

\* process_task("monitor_agents") that also refreshes current_load.
MonitorRefreshesLoad ==
    /\ response' = [op |-> "monitor_agents", success |-> TRUE, status |-> "none",
                    result |-> MonitorResult]
    /\ agent_metrics' = [a \in DOMAIN agent_metrics |->
            [agent_metrics[a] EXCEPT !.current_load =
                Cardinality({t \in active_tasks : tasks[t].agent_type = a})]]
    /\ UNCHANGED <<is_healthy, tasks, task_queue, active_tasks, loop_ready, agents,
                   workflows, total_workflows, completed_workflows,
                   failed_workflows>>

\* process_task("monitor_agents")
MonitorAgents ==
    /\ response' = [op |-> "monitor_agents", success |-> TRUE, status |-> "none",
                    result |-> MonitorResult]
    /\ UNCHANGED <<is_healthy, tasks, task_queue, active_tasks, loop_ready, agents,
                   agent_metrics, workflows, total_workflows,
                   completed_workflows, failed_workflows>>

\* The dictionary _get_queue_status returns (active_details as a set: the
\* entries of _active_tasks).
QueueStatusResult ==
    [active_tasks |-> Cardinality(active_tasks),
     queued_tasks |-> Len(task_queue),
     queue_details |-> [i \in 1..Len(task_queue) |->
        [task_id |-> task_queue[i],
         priority |-> tasks[task_queue[i]].priority,
         agent_type |-> tasks[task_queue[i]].agent_type]],
     active_details |-> {[task_id |-> t, agent_type |-> tasks[t].agent_type] :
                            t \in active_tasks}]

\* process_task("get_queue_status")
GetQueueStatus ==
    /\ response' = [op |-> "get_queue_status", success |-> TRUE, status |-> "none",
                    result |-> QueueStatusResult]
    /\ UNCHANGED <<is_healthy, tasks, task_queue, active_tasks, loop_ready, agents,
                   agent_metrics, workflows, total_workflows,
                   completed_workflows, failed_workflows>>

\* process_task with a task_type that is none of the five request types.
UnknownRequest ==
    /\ response' = ErrorResponse("unknown", "unknown_type")
    /\ UNCHANGED <<is_healthy, tasks, task_queue, active_tasks, loop_ready, agents,
                   agent_metrics, workflows, total_workflows,
                   completed_workflows, failed_workflows>>

\* Slips of _cancel_task: the queued task is marked but stays queued; the
\* queued task is removed but not marked; the active task is marked.
CancelKeepsQueued(task_id) ==
    IF task_id \in Range(task_queue)
    THEN [status |-> "cancelled", queue |-> task_queue,
          tasks |-> [tasks EXCEPT ![task_id].status = "cancelled"]]
    ELSE IF task_id \in active_tasks
    THEN [status |-> "cancellation_requested", queue |-> task_queue, tasks |-> tasks]
    ELSE [status |-> "not_found", queue |-> task_queue, tasks |-> tasks]

CancelForgetsStatus(task_id) ==
    IF task_id \in Range(task_queue)
    THEN [status |-> "cancelled",
          queue |-> SelectSeq(task_queue, LAMBDA x : x # task_id),
          tasks |-> tasks]
    ELSE IF task_id \in active_tasks
    THEN [status |-> "cancellation_requested", queue |-> task_queue, tasks |-> tasks]
    ELSE [status |-> "not_found", queue |-> task_queue, tasks |-> tasks]

CancelMarksActive(task_id) ==
    IF task_id \in Range(task_queue)
    THEN [status |-> "cancelled",
          queue |-> SelectSeq(task_queue, LAMBDA x : x # task_id),
          tasks |-> [tasks EXCEPT ![task_id].status = "cancelled"]]
    ELSE IF task_id \in active_tasks
    THEN [status |-> "cancellation_requested", queue |-> task_queue,
          tasks |-> [tasks EXCEPT ![task_id].status = "cancelled"]]
    ELSE [status |-> "not_found", queue |-> task_queue, tasks |-> tasks]

\* What _cancel_task does for task_id: the status it returns and the queue
\* and tasks it leaves.
CancelResult(task_id) ==
    IF task_id \in Range(task_queue)
    THEN [status |-> "cancelled",
          queue |-> SelectSeq(task_queue, LAMBDA x : x # task_id),
          tasks |-> [tasks EXCEPT ![task_id].status = "cancelled"]]
    ELSE IF task_id \in active_tasks
    THEN [status |-> "cancellation_requested", queue |-> task_queue, tasks |-> tasks]
    ELSE [status |-> "not_found", queue |-> task_queue, tasks |-> tasks]

\* process_task("cancel_task")
CancelTask(task_id) ==
    /\ LET r == CancelResult(task_id)
       IN /\ task_queue' = r.queue
          /\ tasks' = r.tasks
          /\ response' = [op |-> "cancel_task", success |-> TRUE,
                          status |-> r.status]
    /\ UNCHANGED <<is_healthy, active_tasks, loop_ready, agents, agent_metrics, workflows,
                   total_workflows, completed_workflows, failed_workflows>>

\* A slip of the cleanup test: the cutoff is never reached.
NeverExpired(W) == FALSE

\* The cleanup test of _monitoring_loop.
Expired(W) ==
    /\ W.status \in {"completed", "failed"}
    /\ W.completed_at = "old"

\* A pass of _monitoring_loop that does not process the queue.
TickWithoutDrain ==
    /\ agent_metrics' = [a \in DOMAIN agent_metrics |->
            [agent_metrics[a] EXCEPT !.current_load =
                Cardinality({t \in active_tasks : tasks[t].agent_type = a})]]
    /\ workflows' = [w \in DOMAIN workflows |->
            IF workflows[w].stored /\ Expired(workflows[w])
            THEN [workflows[w] EXCEPT !.stored = FALSE]
            ELSE workflows[w]]
    /\ UNCHANGED <<is_healthy, tasks, task_queue, active_tasks, loop_ready, agents,
                   total_workflows, completed_workflows, failed_workflows,
                   response>>

\* One pass of _monitoring_loop after its sleep: current_load, the drain of
\* the queue, and the removal of old workflows from _workflows.
MonitoringTick ==
    /\ agent_metrics' = [a \in DOMAIN agent_metrics |->
            [agent_metrics[a] EXCEPT !.current_load =
                Cardinality({t \in active_tasks : tasks[t].agent_type = a})]]
    /\ LET r == ProcessQueue(task_queue, tasks, active_tasks)
       IN /\ task_queue' = r.queue
          /\ loop_ready' = loop_ready \o StartEntries(r.popped)
    /\ workflows' = [w \in DOMAIN workflows |->
            IF workflows[w].stored /\ Expired(workflows[w])
            THEN [workflows[w] EXCEPT !.stored = FALSE]
            ELSE workflows[w]]
    /\ UNCHANGED <<is_healthy, tasks, active_tasks, agents, total_workflows,
                   completed_workflows, failed_workflows, response>>

\* More than the retention window (3600 seconds) passes: every
\* completed_at stamped so far is now before the cutoff.
RetentionElapses ==
    /\ \E w \in DOMAIN workflows : workflows[w].ended = "recent"
    /\ workflows' = [w \in DOMAIN workflows |->
            IF workflows[w].ended = "recent"
            THEN [workflows[w] EXCEPT
                     !.ended = "old",
                     !.completed_at = IF @ = "recent" THEN "old" ELSE @]
            ELSE workflows[w]]
    /\ UNCHANGED <<is_healthy, tasks, task_queue, active_tasks, loop_ready, agents,
                   agent_metrics, total_workflows, completed_workflows,
                   failed_workflows, response>>

\* BaseAgent.shutdown: requests that enter through process_task leave
\* is_busy False, so the wait loop is passed at once; _shutdown_agent is not
\* overridden by the orchestrator and the task created for _monitoring_loop
\* by _initialize_agent is kept nowhere.
Shutdown ==
    /\ is_healthy
    /\ is_healthy' = FALSE
    /\ UNCHANGED <<tasks, task_queue, active_tasks, loop_ready, agents,
                   agent_metrics, workflows, total_workflows,
                   completed_workflows, failed_workflows, response>>

\* ------------------------------------------------------------ the system
\* Dependency ids of a delegate request: none, or the id of the first task.
DelegateDependencies == {{}, {1} \cap TaskIds}

ExecutionStrategies == {"sequential", "parallel", "conditional"}

ErrorStrategies == {"fail_fast", "continue"}

\* Task definitions of a workflow of n tasks: an agent type and, as
\* dependencies, none or one of the workflow's tasks, named by its position.
TaskDefinitions(n) ==
    [agent_type : {"email"}, dependencies : {{}} \cup {{j} : j \in 1..n}]

WorkflowDefinitions(room) ==
    UNION {[1..n -> TaskDefinitions(n)] : n \in 0..(IF room < MaxWfTasks THEN room ELSE MaxWfTasks)}

\* The same, with dependency ids that may name no task at all (0).
OpenTaskDefinitions(n) ==
    [agent_type : {"email"}, dependencies : {{}} \cup {{j} : j \in 0..n}]

OpenWorkflowDefinitions(room) ==
    UNION {[1..n -> OpenTaskDefinitions(n)] : n \in 0..(IF room < MaxWfTasks THEN room ELSE MaxWfTasks)}

\* The orchestrator after __init__ and initialize(), the registry holding
\* the agents of registered.
InitWith(registered) ==
    /\ is_healthy = TRUE
    /\ tasks = <<>>
    /\ task_queue = <<>>
    /\ active_tasks = {}
    /\ loop_ready = <<>>
    /\ agents = registered
    /\ agent_metrics = [a \in MonitoredTypes |-> NewAgentMetrics]
    /\ workflows = <<>>
    /\ total_workflows = 0
    /\ completed_workflows = 0
    /\ failed_workflows = 0
    /\ response = NoResponse

\* A worker is registered for the orchestrator's own type from the start;
\* the worker of "email" comes and goes.
Init == InitWith({"orchestrator"})

\* The whole orchestrator: requests, the event loop, the workers, the
\* monitoring loop and the registry.
Next ==
    \/ RegisterAgent("email")
    \/ UnregisterAgent("email")
    \/ /\ Len(tasks) < MaxTasks
       /\ \E a \in AgentTypes : DelegateTask(a, "normal", {})
    \/ /\ Len(workflows) < MaxWorkflows
       /\ \E s \in ExecutionStrategies, e \in ErrorStrategies,
             defs \in WorkflowDefinitions(MaxTasks - Len(tasks)) :
             ExecuteWorkflow(s, e, defs)
    \/ \E t \in 1..MaxTasks : CancelTask(t)
    \/ StartTask
    \/ \E t \in active_tasks, b \in WorkerBehaviours : WorkerReturns(t, b)
    \/ ResumeWorkflow
    \/ MonitoringTick
    \/ RetentionElapses

Spec == Init /\ [][Next]_vars

\* The dispatcher alone, with every priority and with dependencies: delegate
\* requests for one registered capability, cancel requests for queued tasks,
\* the event loop, workers that succeed, and the monitoring loop.
InitQueue == InitWith({"email"})

NextQueue ==
    \/ /\ Len(tasks) < MaxQueueTasks
       /\ \E p \in TaskPriorities, deps \in DelegateDependencies :
             DelegateTask("email", p, deps)
    \/ \E t \in Range(task_queue) : CancelTask(t)
    \/ StartTask
    \/ \E t \in active_tasks : WorkerReturns(t, "success")
    \/ MonitoringTick

SpecQueue == InitQueue /\ [][NextQueue]_vars

\* The workflow engine alone, with workers that may give context updates
\* and dependency ids that may name no task: execute_workflow requests, the
\* registry, the event loop, the workers and the monitoring loop.
WorkflowBehaviours == {"success", "update", "failure", "raise"}

InitWorkflow == InitWith({})

NextWorkflow ==
    \/ RegisterAgent("email")
    \/ UnregisterAgent("email")
    \/ /\ Len(workflows) < MaxWorkflows
       /\ \E s \in ExecutionStrategies, e \in ErrorStrategies,
             defs \in OpenWorkflowDefinitions(MaxTasks - Len(tasks)) :
             ExecuteWorkflow(s, e, defs)
    \/ StartTask
    \/ \E t \in active_tasks, b \in WorkflowBehaviours : WorkerReturns(t, b)
    \/ ResumeWorkflow
    \/ MonitoringTick
    \/ RetentionElapses

SpecWorkflow == InitWorkflow /\ [][NextWorkflow]_vars

\* The metrics alone: one client that delegates its next task to the one
\* registered capability when its last one is done, and a worker that
\* reports a processing time of 2, 4, 6, ... seconds with its output.
ProcessingTimes == {2 * k : k \in 1..MaxProcessingTimes}

InitMetrics == InitWith({"email"})

NextMetrics ==
    \/ /\ Len(tasks) < MaxMetricTasks
       /\ active_tasks = {} /\ loop_ready = <<>>
       /\ DelegateTask("email", "normal", {})
    \/ StartTask
    \/ \E t \in active_tasks, b \in WorkerBehaviours, pt \in ProcessingTimes :
          WorkerReturnsAfter(t, b, pt)

SpecMetrics == InitMetrics /\ [][NextMetrics]_vars

\* Every request type of process_task, well-formed or not, for one
\* registered capability: agent types that AgentType rejects, execution
\* strategies that _execute_workflow rejects, task types that process_task
\* rejects, and workers that succeed, fail or raise.
RequestAgentTypes == {"email", "unknown"}

RequestTaskDefinitions(n) ==
    [agent_type : RequestAgentTypes, dependencies : {{}}]

RequestWorkflowDefinitions(room) ==
    UNION {[1..n -> RequestTaskDefinitions(n)] :
              n \in 0..(IF room < MaxWfTasks THEN room ELSE MaxWfTasks)}

InitRequests == InitWith({"email"})

NextRequests ==
    \/ \E a \in RequestAgentTypes, deps \in DelegateDependencies :
          /\ ValidAgentType(a) => Len(tasks) < MaxRequestTasks
          /\ DelegateTask(a, "normal", deps)
    \/ \E s \in ExecutionStrategies, e \in ErrorStrategies,
          defs \in RequestWorkflowDefinitions(MaxRequestTasks) :
          /\ (\A i \in 1..Len(defs) : ValidAgentType(defs[i].agent_type))
                => /\ Len(workflows) < MaxRequestWorkflows
                   /\ Len(tasks) + Len(defs) <= MaxRequestTasks
          /\ ExecuteWorkflow(s, e, defs)
    \/ \E t \in 1..MaxRequestTasks : CancelTask(t)
    \/ MonitorAgents
    \/ GetQueueStatus
    \/ UnknownRequest
    \/ StartTask
    \/ \E t \in active_tasks, b \in WorkerBehaviours : WorkerReturns(t, b)
    \/ ResumeWorkflow
    \/ MonitoringTick

SpecRequests == InitRequests /\ [][NextRequests]_vars

\* The dispatcher under the scheduling the code relies on.  The event loop
\* runs every coroutine that is ready (StartTask), _monitoring_loop wakes up
\* after every sleep for as long as the orchestrator runs (MonitoringTick),
\* and every worker that was called returns or raises in the end; requests
\* come as the clients please, and are finitely many.
LivePriorities == {"urgent", "background"}

InitLive == InitWith({"email"})

NextLive ==
    \/ /\ Len(tasks) < MaxLiveTasks
       /\ \E p \in LivePriorities, deps \in DelegateDependencies :
             DelegateTask("email", p, deps)
    \/ \E t \in Range(task_queue) : CancelTask(t)
    \/ StartTask
    \/ \E t \in active_tasks : WorkerReturns(t, "success")
    \/ MonitoringTick

SpecLive ==
    /\ InitLive /\ [][NextLive]_vars
    /\ WF_vars(StartTask)
    /\ WF_vars(MonitoringTick)
    /\ \A t \in 1..MaxLiveTasks : WF_vars(WorkerReturns(t, "success"))

\* Tasks with any max_retries: delegate requests that name none, zero or
\* one retry, workflows, cancel requests, workers that succeed, fail or
\* raise, the event loop and the monitoring loop.
RequestRetries == {0, 1, DefaultMaxRetries}

InitRetry == InitWith({"email"})

NextRetry ==
    \/ /\ Len(tasks) < MaxRetryTasks
       /\ \E retries \in RequestRetries :
             DelegateTaskWith("email", "normal", {}, retries)
    \/ /\ Len(workflows) < MaxWorkflows
       /\ \E s \in ExecutionStrategies, e \in ErrorStrategies,
             defs \in WorkflowDefinitions(MaxRetryTasks - Len(tasks)) :
             ExecuteWorkflow(s, e, defs)
    \/ \E t \in TaskIds : CancelTask(t)
    \/ StartTask
    \/ \E t \in active_tasks, b \in WorkerBehaviours : WorkerReturns(t, b)
    \/ ResumeWorkflow
    \/ MonitoringTick

SpecRetry == InitRetry /\ [][NextRetry]_vars

\* The level computation alone: one parallel workflow whose definition is
\* any dependency graph over its own tasks, and workers that succeed.
GraphDefinitions ==
    UNION {[1..n -> [agent_type : {"email"}, dependencies : SUBSET (1..n)]] :
              n \in 0..MaxLevelTasks}

InitLevels == InitWith({"email"})

NextLevels ==
    \/ /\ workflows = <<>>
       /\ \E e \in ErrorStrategies, defs \in GraphDefinitions :
             ExecuteWorkflow("parallel", e, defs)
    \/ StartTask
    \/ \E t \in active_tasks : WorkerReturns(t, "success")
    \/ ResumeWorkflow

SpecLevels == InitLevels /\ [][NextLevels]_vars

\* The dependency check outside a workflow: delegate requests whose one
\* dependency id names no task (0), a task accepted earlier, the task
\* itself or a task not accepted yet, workers that succeed or fail, the
\* event loop and the monitoring loop.
AdHocDependencies == {{}} \cup {{d} : d \in 0..MaxDepTasks}

InitDeps == InitWith({"email"})

NextDeps ==
    \/ /\ Len(tasks) < MaxDepTasks
       /\ \E deps \in AdHocDependencies : DelegateTask("email", "normal", deps)
    \/ StartTask
    \/ \E t \in active_tasks, b \in {"success", "failure"} : WorkerReturns(t, b)
    \/ MonitoringTick

SpecDeps == InitDeps /\ [][NextDeps]_vars

\* The life cycle: delegate requests for one registered capability, the
\* event loop, workers that succeed, the monitoring loop and shutdown().
InitShutdown == InitWith({"email"})

NextShutdown ==
    \/ /\ Len(tasks) < MaxShutdownTasks
       /\ \E p \in LivePriorities : DelegateTask("email", p, {})
    \/ StartTask
    \/ \E t \in active_tasks : WorkerReturns(t, "success")
    \/ MonitoringTick
    \/ Shutdown

SpecShutdown == InitShutdown /\ [][NextShutdown]_vars

\* The workflow counters: several execute_workflow requests in progress at
\* once, well-formed or not, with workers that succeed or fail, the event
\* loop, and the monitoring loop removing old workflows.
InitCounters == InitWith({"email"})

NextCounters ==
    \/ \E s \in ExecutionStrategies, e \in ErrorStrategies,
          defs \in RequestWorkflowDefinitions(MaxCounterTasks - Len(tasks)) :
          /\ Len(workflows) < MaxCounterWorkflows
          /\ ExecuteWorkflow(s, e, defs)
    \/ StartTask
    \/ \E t \in active_tasks, b \in {"success", "failure"} : WorkerReturns(t, b)
    \/ ResumeWorkflow
    \/ MonitoringTick
    \/ RetentionElapses

SpecCounters == InitCounters /\ [][NextCounters]_vars

\* The two strategies side by side: execute_workflow requests with the
\* sequential and the parallel strategy, dependency ids that may name a task
\* declared later or no task at all, one registered capability whose worker
\* always succeeds, and the event loop.
InitStrategies == InitWith({"email"})

NextStrategies ==
    \/ /\ Len(workflows) < MaxStrategyWorkflows
       /\ \E s \in {"sequential", "parallel"},
             defs \in OpenWorkflowDefinitions(MaxStrategyTasks) :
             ExecuteWorkflow(s, "fail_fast", defs)
    \/ StartTask
    \/ \E t \in active_tasks : WorkerReturns(t, "success")
    \/ ResumeWorkflow

SpecStrategies == InitStrategies /\ [][NextStrategies]_vars

\* ------------------------------------------------------------ properties
\* The task ids on the queue, and those whose coroutine waits on the loop.
Queued == Range(task_queue)

Scheduled == {e[2] : e \in {x \in Range(loop_ready) : x[1] = "start"}}

\* The five-level order of the specification, from most to least urgent.
PriorityLevels == <<"urgent", "high", "normal", "low", "background">>

RankIn(T, t) == CHOOSE i \in 1..Len(PriorityLevels) : PriorityLevels[i] = T[t].priority

\* Task t comes before task u in (priority, enqueue order); delegated tasks
\* are enqueued in the order of their ids.
BeforeIn(T, t, u) ==
    RankIn(T, t) < RankIn(T, u) \/ (RankIn(T, t) = RankIn(T, u) /\ t < u)

Before(t, u) == BeforeIn(tasks, t, u)

\* The delegated tasks a step takes from the queue, in the order in which
\* it puts their coroutines on the loop's ready list (an entry is on the
\* list once, so the list either keeps its head or loses it).
Taken ==
    LET kept == IF Len(loop_ready') >= Len(loop_ready)
                   /\ SubSeq(loop_ready', 1, Len(loop_ready)) = loop_ready
                THEN Len(loop_ready) ELSE Len(loop_ready) - 1
        new == SubSeq(loop_ready', kept + 1, Len(loop_ready'))
        ids == [i \in 1..Len(new) |-> new[i][2]]
    IN SelectSeq(ids, LAMBDA t : new # <<>> /\ new[1][1] = "start"
                                  /\ tasks'[t].parent_workflow_id = 0)

TerminalStatus(st) == st \in {"completed", "failed", "cancelled"}

\* C1: the number of tasks handed to a worker and not yet finished never
\* exceeds max_concurrent_tasks.
C1_CapRespected == Cardinality(active_tasks) <= max_concurrent_tasks

\* C2: the queue is always ordered by the five-level priority, with tasks of
\* equal priority in the order they were enqueued; a task that was enqueued
\* and not cancelled is on the queue or was drained from it; and a drain
\* takes the tasks in queue order, so that [Low, Urgent, Normal] drains as
\* [Urgent, Normal, Low].
C2_Ordered ==
    /\ \A i, j \in 1..Len(task_queue) : i < j => Before(task_queue[i], task_queue[j])
    /\ \A t \in TaskIds :
          (tasks[t].parent_workflow_id = 0 /\ tasks[t].status = "pending"
             /\ tasks[t].returned = "none")
          => (t \in Queued \/ t \in Scheduled)

C2_DrainInOrder ==
    \A i, j \in 1..Len(Taken) : i < j => BeforeIn(tasks', Taken[i], Taken[j])

C2_PriorityQueue == [](C2_Ordered) /\ [][C2_DrainInOrder]_vars

\* C2 witness: tasks enqueued as [Low, Urgent, Normal] are queued as
\* [Urgent, Normal, Low].
C2_Witness ==
    \E a, b, c \in TaskIds :
        /\ a < b /\ b < c
        /\ tasks[a].priority = "low"
        /\ tasks[b].priority = "urgent"
        /\ tasks[c].priority = "normal"
        /\ task_queue = <<b, c, a>>

\* C3: a drain decision takes the first task, in (priority, enqueue order),
\* among the queued tasks whose dependencies are satisfied: no ready task
\* that stays queued comes before a task taken, the tasks taken are taken in
\* that order, and a task once taken keeps its place (it never goes back to
\* the queue and nothing is put in front of it on the loop).
C3_Step ==
    LET taken == Range(Taken)
    IN /\ \A t \in taken : \A u \in Range(task_queue') :
              (tasks'[u].dependencies \cap active_tasks = {}) => ~BeforeIn(tasks', u, t)
       /\ \A i \in 1..Len(Taken) : \A j \in 1..Len(Taken) :
              i < j => ~BeforeIn(tasks', Taken[j], Taken[i])
       /\ \A t \in TaskIds : t \notin Queued => t \notin Queued'
       /\ \A t \in Scheduled : t \in Scheduled' \/ Head(loop_ready)[2] = t
       /\ \A t \in active_tasks : t \in active_tasks' \/ TerminalStatus(tasks'[t].status)

C3_FirstReadyTaken == [][C3_Step]_vars

\* C3 witness: a task waits on the loop while a task that comes before it is
\* still queued, held back by a dependency in the active set.
C3_Witness ==
    \E t \in Scheduled : \E u \in Queued :
        /\ Before(u, t)
        /\ tasks[u].dependencies \cap active_tasks # {}

\* C4: the scan of the drain never takes a task with a dependency id in the
\* active set, and when no queued task is ready it takes none and leaves the
\* queue as it is.
C4_Step ==
    /\ \A t \in Range(Taken) : tasks'[t].dependencies \cap active_tasks = {}
    /\ \A t \in Queued \ Queued' :
          \/ tasks'[t].status = "cancelled"
          \/ t \in Scheduled' /\ tasks[t].dependencies \cap active_tasks = {}
    /\ (\A t \in Queued : tasks[t].dependencies \cap active_tasks # {})
          => \A t \in Queued : t \in Queued' \/ tasks'[t].status = "cancelled"

C4_DequeueReady == [][C4_Step]_vars

\* C4 witness: a slot is free, and a queued task is held back by a dependency
\* in the active set.
C4_Witness ==
    /\ Cardinality(active_tasks) < max_concurrent_tasks
    /\ \E t \in Queued : tasks[t].dependencies \cap active_tasks # {}

\* C5: the status of a task only moves forward along
\* pending -> running -> {completed, failed, cancelled}.
StatusRank(st) == IF st = "pending" THEN 0 ELSE IF st = "running" THEN 1 ELSE 2

C5_Step ==
    \A t \in TaskIds :
        \/ tasks'[t].status = tasks[t].status
        \/ StatusRank(tasks[t].status) < StatusRank(tasks'[t].status)

C5_StatusMonotonic == [][C5_Step]_vars

\* C5 witness: a delegated task and a workflow task have finished and a
\* queued task was cancelled.
C5_Witness ==
    /\ \E t \in TaskIds : tasks[t].status = "cancelled"
    /\ \E t \in TaskIds : tasks[t].parent_workflow_id = 0 /\ tasks[t].status = "completed"
    /\ \E t \in TaskIds : tasks[t].parent_workflow_id # 0 /\ tasks[t].status = "failed"

\* C6: cancel_task of a task that is still queued removes it from the queue,
\* marks it cancelled and returns "cancelled"; a cancelled task stays
\* cancelled, is never running, is never handed to a worker and is neither
\* queued, nor waiting on the loop, nor active.
C6_Cancelled ==
    \A t \in TaskIds :
        tasks[t].status = "cancelled"
        => /\ tasks[t].calls = 0
           /\ t \notin Queued
           /\ t \notin Scheduled
           /\ t \notin active_tasks

C6_Step ==
    /\ \A t \in Queued :
          CancelTask(t)
          => /\ t \notin Queued'
             /\ tasks'[t].status = "cancelled"
             /\ response'.op = "cancel_task"
             /\ response'.status = "cancelled"
             /\ \A u \in Queued \ {t} : u \in Queued'
    /\ \A t \in TaskIds :
          tasks[t].status = "cancelled"
          => tasks'[t].status = "cancelled" /\ tasks'[t].calls = 0

C6_CancelQueued == [](C6_Cancelled) /\ [][C6_Step]_vars

\* C6 witness: the last request cancelled a queued task, which is off the
\* queue and cancelled while the tasks ahead of it run.
C6_Witness ==
    /\ response.op = "cancel_task"
    /\ response.status = "cancelled"
    /\ \E t \in TaskIds : tasks[t].status = "cancelled" /\ t \notin Queued
    /\ Cardinality(active_tasks) = max_concurrent_tasks

\* C7: cancel_task of a task in the active set returns
\* "cancellation_requested" and changes neither a task, nor the queue, nor
\* the active set; the task goes on to finish.
C7_Step ==
    \A t \in active_tasks :
        CancelTask(t)
        => /\ response'.op = "cancel_task"
           /\ response'.status = "cancellation_requested"
           /\ tasks' = tasks
           /\ task_queue' = task_queue
           /\ active_tasks' = active_tasks
           /\ loop_ready' = loop_ready

C7_CancelActive == [][C7_Step]_vars

\* C7 witness: the only task was active when its cancellation was requested
\* and has completed since.
C7_Witness ==
    /\ Len(tasks) = 1
    /\ tasks[1].status = "completed"
    /\ response.op = "cancel_task"
    /\ response.status = "cancellation_requested"

\* The message msg holds the words of phrase, in a row.
Cites(msg, phrase) ==
    \E i \in 1..(Len(msg) - Len(phrase) + 1) :
        SubSeq(msg, i, i + Len(phrase) - 1) = phrase

\* The coroutine at the head of the loop is that of a delegated task whose
\* agent type has no agent in the registry.
HeadUnregistered ==
    /\ HeadIs("start")
    /\ tasks[Head(loop_ready)[2]].parent_workflow_id = 0
    /\ tasks[Head(loop_ready)[2]].agent_type \notin agents

\* C8 as stated: the outcome for a task whose capability has no registered
\* worker is a failure citing "not registered", and no worker is invoked.
C8_Original ==
    \A t \in TaskIds :
        tasks[t].returned = "not_found"
        => /\ ~Success(tasks[t].returned)
           /\ Cites(ErrorMessage(tasks[t].returned, tasks[t].agent_type),
                    <<"not", "registered">>)
           /\ tasks[t].calls = 0
           /\ t \notin active_tasks

\* C8, amended: the outcome for a task whose capability has no registered
\* worker is a failure citing "not found" and naming the capability; the
\* delegate request itself succeeds, no worker is invoked, the task never
\* takes a slot of the active set, and the queue and the coroutines behind
\* it on the loop are left as they are.
C8_Outcome ==
    \A t \in TaskIds :
        tasks[t].returned = "not_found"
        => /\ ~Success(tasks[t].returned)
           /\ Cites(ErrorMessage(tasks[t].returned, tasks[t].agent_type),
                    <<tasks[t].agent_type, "not", "found">>)
           /\ tasks[t].calls = 0
           /\ t \notin active_tasks
           /\ t \notin Queued

C8_Step ==
    /\ \A a \in AgentTypes :
          (a \notin agents /\ DelegateTask(a, "normal", {}))
          => response'.op = "delegate_task" /\ response'.success
    /\ (HeadUnregistered /\ StartTask)
          => /\ tasks'[Head(loop_ready)[2]].returned = "not_found"
             /\ tasks'[Head(loop_ready)[2]].calls = 0
             /\ active_tasks' = active_tasks
             /\ task_queue' = task_queue
             /\ loop_ready' = Tail(loop_ready)
             /\ response' = response

C8_AgentNotFound == [](C8_Outcome) /\ [][C8_Step]_vars

\* C8 witness: a delegated task got the outcome of the registry miss, and a
\* task delegated after it is running.
C8_Witness ==
    \E t, u \in TaskIds :
        /\ t < u
        /\ tasks[t].parent_workflow_id = 0
        /\ tasks[t].returned = "not_found"
        /\ tasks[u].parent_workflow_id = 0
        /\ tasks[u].status = "running"

\* What every step in which the worker of task t raises does: the task ends
\* failed with the error_result as its result, leaves the active set, and
\* the other active tasks stay as they are; in a sequential workflow the
\* error_result is stored in the results of the workflow.
FaultCaptured(t) ==
    /\ tasks'[t].status = "failed"
    /\ tasks'[t].last_error
    /\ tasks'[t].returned = "error"
    /\ ~Success(tasks'[t].returned)
    /\ t \notin active_tasks'
    /\ \A u \in active_tasks \ {t} : u \in active_tasks' /\ tasks'[u] = tasks[u]
    /\ response' # response
          => /\ tasks[t].parent_workflow_id # 0
             /\ response'.op = "execute_workflow"
             /\ response'.success = (workflows'[tasks[t].parent_workflow_id].status = "completed")
    /\ (tasks[t].parent_workflow_id # 0
          /\ workflows[tasks[t].parent_workflow_id].execution_strategy = "sequential")
          => t \in workflows'[tasks[t].parent_workflow_id].results

\* The failure counters of agent type a go up by one.
FailureCounted(a) ==
    /\ a \in DOMAIN agent_metrics
    /\ agent_metrics'[a].total_tasks = agent_metrics[a].total_tasks + 1
    /\ agent_metrics'[a].failed_tasks = agent_metrics[a].failed_tasks + 1
    /\ agent_metrics'[a].successful_tasks = agent_metrics[a].successful_tasks

\* C9 as stated: a fault of a worker makes the task failed, removes it from
\* the active set and updates the failure metrics of its capability.
C9_OriginalStep ==
    \A t \in active_tasks :
        WorkerReturns(t, "raise")
        => FaultCaptured(t) /\ FailureCounted(tasks[t].agent_type)

C9_Original == [][C9_OriginalStep]_vars

\* C9, amended: a fault of a worker makes the task failed and removes it from
\* the active set; the failure metrics of its capability are updated when
\* the orchestrator keeps metrics for that capability (it keeps none for its
\* own agent type, and then the metrics are left as they are); no exception
\* reaches the caller.
C9_Step ==
    \A t \in active_tasks :
        WorkerReturns(t, "raise")
        => /\ FaultCaptured(t)
           /\ IF tasks[t].agent_type \in DOMAIN agent_metrics
              THEN FailureCounted(tasks[t].agent_type)
              ELSE agent_metrics' = agent_metrics

C9_FaultCaptured == [][C9_Step]_vars

\* C9 witness: the worker of a monitored capability and the worker of the
\* orchestrator's own type have both raised.
C9_Witness ==
    /\ \E t \in TaskIds :
          /\ tasks[t].agent_type \in DOMAIN agent_metrics
          /\ tasks[t].last_error /\ tasks[t].status = "failed"
          /\ agent_metrics[tasks[t].agent_type].failed_tasks > 0
    /\ \E t \in TaskIds :
          /\ tasks[t].agent_type \notin DOMAIN agent_metrics
          /\ tasks[t].last_error /\ tasks[t].status = "failed"

\* The tasks of workflow W that _execute_single_task was called for and has
\* returned from, and those among them whose outcome is a failure.
Executed(W) == {t \in Range(W.tasks) : tasks[t].returned # "none"}

FailedIn(W) == {t \in W.results : ~Success(tasks[t].returned)}

\* C10: in a sequential fail_fast workflow, once the outcome of a task is a
\* failure the workflow is failed, no task declared after that task is ever
\* dispatched, and the results hold exactly the tasks executed, the failed
\* one being the last of them.
C10_FailFast ==
    \A w \in DOMAIN workflows :
        LET W == workflows[w]
        IN (W.execution_strategy = "sequential" /\ W.error_strategy = "fail_fast")
           => /\ (W.status = "failed") = (FailedIn(W) # {})
              /\ \A i \in 1..Len(W.tasks) :
                    W.tasks[i] \in FailedIn(W)
                    => /\ \A j \in (i + 1)..Len(W.tasks) :
                             /\ tasks[W.tasks[j]].calls = 0
                             /\ tasks[W.tasks[j]].status = "pending"
                             /\ tasks[W.tasks[j]].returned = "none"
                             /\ W.tasks[j] \notin W.results
                             /\ W.tasks[j] \notin active_tasks
                       /\ W.results = Executed(W)
                       /\ \A j \in 1..(i - 1) : W.tasks[j] \notin FailedIn(W)

\* C10 witness: [A ok, B fails, C] without dependencies: the workflow is
\* failed, its results are A and B, C is pending and was never dispatched.
C10_Witness ==
    \E w \in DOMAIN workflows :
        LET W == workflows[w]
        IN /\ W.execution_strategy = "sequential"
           /\ W.error_strategy = "fail_fast"
           /\ Len(W.tasks) = 3
           /\ \A i \in 1..3 : tasks[W.tasks[i]].dependencies = {}
           /\ W.status = "failed"
           /\ tasks[W.tasks[1]].status = "completed"
           /\ tasks[W.tasks[2]].status = "failed"
           /\ tasks[W.tasks[3]].status = "pending"
           /\ tasks[W.tasks[3]].calls = 0
           /\ W.results = {W.tasks[1], W.tasks[2]}

\* ---- workflows: the vocabulary of the properties
\* The tasks of workflow w, its level structure (for a workflow whose
\* dependencies have no cycle), and the progress of a task: a task has
\* begun once its coroutine is on the loop, it is dispatched once its worker
\* is called, and it is finished once _execute_single_task has returned.
TasksOf(w) == Range(workflows[w].tasks)

IsParallel(w) ==
    /\ workflows[w].execution_strategy = "parallel"
    /\ ~Cyclic(tasks, TasksOf(w))

IsSequential(w) == workflows[w].execution_strategy = "sequential"

LevelOf(w, t) == CalculateTaskLevel(tasks, TasksOf(w), t)

Begun(t) == t \in Scheduled \/ tasks[t].calls > 0 \/ tasks[t].returned # "none"

Dispatched(t) == tasks[t].calls > 0

Finished(t) == tasks[t].returned # "none"

FailedOutcome(t) == Finished(t) /\ ~Success(tasks[t].returned)

\* C11: in a parallel fail_fast workflow, once a task of a level has a failed
\* outcome no task of a later level is dispatched, and the workflow ends
\* failed.
C11_ParallelFailFast ==
    \A w \in DOMAIN workflows :
        (IsParallel(w) /\ workflows[w].error_strategy = "fail_fast")
        => /\ \A t, u \in TasksOf(w) :
                 (FailedOutcome(t) /\ LevelOf(w, t) < LevelOf(w, u)) => ~Begun(u)
           /\ (workflows[w].ended # "none" /\ \E t \in TasksOf(w) : FailedOutcome(t))
                 => workflows[w].status = "failed"

\* C12: in a parallel workflow a task of a level begins only when every task
\* of every lower level has finished; so a task begins only when the tasks
\* of the workflow it depends on have finished.
C12_LevelBarrier ==
    \A w \in DOMAIN workflows :
        IsParallel(w)
        => \A t, u \in TasksOf(w) :
              /\ (LevelOf(w, t) < LevelOf(w, u) /\ Begun(u)) => Finished(t)
              /\ (t \in tasks[u].dependencies /\ Begun(u)) => Finished(t)

\* C12 witness: A (no dependencies), B (depends on A), C (no dependencies):
\* the levels are [A, C] and [B], and B runs after A and C have completed.
C12_Witness ==
    \E w \in DOMAIN workflows :
        LET W == workflows[w]
        IN /\ IsParallel(w)
           /\ Len(W.tasks) = 3
           /\ tasks[W.tasks[1]].dependencies = {}
           /\ tasks[W.tasks[2]].dependencies = {W.tasks[1]}
           /\ tasks[W.tasks[3]].dependencies = {}
           /\ LevelTasks(tasks, W, 0) = <<W.tasks[1], W.tasks[3]>>
           /\ LevelTasks(tasks, W, 1) = <<W.tasks[2]>>
           /\ tasks[W.tasks[1]].status = "completed"
           /\ tasks[W.tasks[3]].status = "completed"
           /\ tasks[W.tasks[2]].status = "running"

\* C13: in a parallel workflow every task of the level being gathered has
\* its coroutine on the loop, is active or has finished, whatever happened
\* to its siblings; the results hold only finished tasks, hold every task of
\* a level once the workflow has moved past it, and hold every task when the
\* workflow is completed; and a step in which a task fails or faults leaves
\* the other tasks as they are.
C13_Levels ==
    \A w \in DOMAIN workflows :
        IsParallel(w)
        => LET W == workflows[w]
           IN /\ \A t \in W.results : Finished(t)
              /\ \A t \in TasksOf(w) :
                    (W.status = "running" /\ LevelOf(w, t) = W.level)
                    => (t \in Scheduled \/ t \in active_tasks \/ Finished(t))
              /\ \A t \in TasksOf(w) :
                    (W.status = "running" /\ LevelOf(w, t) < W.level)
                    => t \in W.results
              /\ W.status = "completed" => W.results = TasksOf(w)

C13_Step ==
    \A t \in active_tasks :
        (WorkerReturns(t, "failure") \/ WorkerReturns(t, "raise"))
        => \A u \in TaskIds \ {t} :
              (tasks[u].parent_workflow_id = tasks[t].parent_workflow_id
                 /\ tasks[t].parent_workflow_id # 0
                 /\ workflows[tasks[t].parent_workflow_id].execution_strategy = "parallel")
              => /\ tasks'[u] = tasks[u]
                 /\ u \in active_tasks => u \in active_tasks'
                 /\ u \in Scheduled => u \in Scheduled'

C13_SiblingsUnaffected == [](C13_Levels) /\ [][C13_Step]_vars

\* C13 witness: three tasks of one level; one has failed, one has faulted,
\* one has completed, and the results of the workflow hold all three.
C13_Witness ==
    \E w \in DOMAIN workflows :
        /\ IsParallel(w)
        /\ workflows[w].results = TasksOf(w)
        /\ \A t \in TasksOf(w) : LevelOf(w, t) = 0
        /\ \E t \in TasksOf(w) : tasks[t].returned = "failure"
        /\ \E t \in TasksOf(w) : tasks[t].returned = "error"
        /\ \E t \in TasksOf(w) : tasks[t].returned = "success"

\* C14: a workflow is completed only if every one of its tasks is completed.
C14_CompletedOnlyIfAll ==
    \A w \in DOMAIN workflows :
        workflows[w].status = "completed"
        => \A t \in TasksOf(w) : tasks[t].status = "completed"

\* C15: a task of a workflow is dispatched only if every one of its
\* dependency ids is in the results of the workflow with a successful
\* outcome.
C15_DependenciesMet ==
    \A w \in DOMAIN workflows :
        \A u \in TasksOf(w) :
            Dispatched(u)
            => \A d \in tasks[u].dependencies :
                  d \in workflows[w].results /\ Success(tasks[d].returned)

\* C16: a workflow with error strategy "continue" whose coroutine has ended
\* did not abort, has run every one of its tasks, and its failed_tasks are
\* exactly the tasks whose outcome was a failure.
C16_ContinueOnError ==
    \A w \in DOMAIN workflows :
        (workflows[w].error_strategy = "continue"
           /\ workflows[w].ended # "none"
           /\ (IsSequential(w) \/ IsParallel(w)))
        => /\ workflows[w].status = "completed"
           /\ \A t \in TasksOf(w) : Finished(t)
           /\ workflows[w].failed_tasks = {t \in TasksOf(w) : FailedOutcome(t)}

\* C17: a workflow is created pending and is running once it is executed; it
\* is never seen pending afterwards, it leaves "running" for "completed" or
\* "failed" at most once and then keeps its status, its status is terminal
\* exactly when its coroutine has ended, and completed_at is set only in a
\* terminal status.
C17_Lifecycle ==
    \A w \in DOMAIN workflows :
        LET W == workflows[w]
        IN /\ NewWorkflow(W.execution_strategy, W.error_strategy, W.tasks).status = "pending"
           /\ W.status \in {"running", "completed", "failed"}
           /\ Terminal(W) = (W.ended # "none")
           /\ W.completed_at # "none" => Terminal(W)

C17_Step ==
    /\ \A w \in DOMAIN workflows :
          /\ w \in DOMAIN workflows'
          /\ Terminal(workflows[w]) => workflows'[w].status = workflows[w].status
          /\ workflows[w].completed_at # "none" => workflows'[w].completed_at # "none"
    /\ \A w \in DOMAIN workflows' \ DOMAIN workflows :
          workflows'[w].status \in {"running", "completed", "failed"}

C17_OneTerminalTransition == [](C17_Lifecycle) /\ [][C17_Step]_vars

\* C17 witness: a workflow ran its tasks, completed, and has kept its status
\* and its completed_at for longer than the retention window.
C17_Witness ==
    \E w \in DOMAIN workflows :
        /\ workflows[w].status = "completed"
        /\ workflows[w].completed_at = "old"
        /\ Len(workflows[w].tasks) = 2
        /\ \A t \in TasksOf(w) : tasks[t].calls = 1

\* C18: a monitoring tick removes from _workflows every workflow that has
\* been completed for longer than the retention window; a workflow once
\* removed is never stored again, and is not among the running workflows
\* that a monitor snapshot counts.
C18_Step ==
    /\ MonitoringTick
          => \A w \in DOMAIN workflows :
                (workflows[w].stored /\ workflows[w].status = "completed"
                   /\ workflows[w].ended = "old")
                => ~workflows'[w].stored
    /\ \A w \in DOMAIN workflows :
          ~workflows[w].stored
          => ~workflows'[w].stored /\ workflows'[w].status # "running"

C18_CompletedRemoved == [][C18_Step]_vars

\* C18 witness: a completed workflow has been removed from _workflows.
C18_Witness ==
    \E w \in DOMAIN workflows :
        /\ ~workflows[w].stored
        /\ workflows[w].status = "completed"
        /\ workflows[w].ended = "old"

\* C19: a monitoring tick removes every workflow that has been in a terminal
\* state, completed or failed, for longer than the retention window.
C19_Step ==
    MonitoringTick
    => \A w \in DOMAIN workflows :
          (workflows[w].stored /\ Terminal(workflows[w]) /\ workflows[w].ended = "old")
          => ~workflows'[w].stored

C19_TerminalRemoved == [][C19_Step]_vars

\* C20: in a sequential workflow, when a task is dispatched the context
\* updates of every task declared before it are in the shared context of the
\* workflow and in the context handed to the worker.
C20_ContextVisible ==
    \A w \in DOMAIN workflows :
        IsSequential(w)
        => \A i, j \in 1..Len(workflows[w].tasks) :
              LET t == workflows[w].tasks[i]
                  u == workflows[w].tasks[j]
              IN (i < j /\ Finished(t) /\ Success(tasks[t].returned) /\ Dispatched(u))
                 => /\ ContextUpdates(tasks[t].returned, t) \subseteq workflows[w].shared_context
                    /\ ContextUpdates(tasks[t].returned, t) \subseteq tasks[u].context

\* -------------------------------------------------------------- metrics
\* The dispatches to agent type a that have produced an outcome: its tasks
\* whose worker was called and for which _execute_single_task has returned.
Outcomes(a) ==
    {t \in TaskIds : /\ tasks[t].agent_type = a
                     /\ tasks[t].calls > 0
                     /\ tasks[t].returned # "none"}

\* The counters of agent type a go up by one for an outcome of behaviour b:
\* the total, and exactly one of successful_tasks and failed_tasks.
Counted(a, b) ==
    /\ a \in DOMAIN agent_metrics
    /\ agent_metrics'[a].total_tasks = agent_metrics[a].total_tasks + 1
    /\ IF Success(OutcomeOf(b))
       THEN /\ agent_metrics'[a].successful_tasks = agent_metrics[a].successful_tasks + 1
            /\ agent_metrics'[a].failed_tasks = agent_metrics[a].failed_tasks
       ELSE /\ agent_metrics'[a].successful_tasks = agent_metrics[a].successful_tasks
            /\ agent_metrics'[a].failed_tasks = agent_metrics[a].failed_tasks + 1
    /\ \A c \in DOMAIN agent_metrics \ {a} : agent_metrics'[c] = agent_metrics[c]

\* The counters of agent type a agree with the outcomes produced so far.
CountersAgree(a) ==
    /\ agent_metrics[a].total_tasks =
          agent_metrics[a].successful_tasks + agent_metrics[a].failed_tasks
    /\ agent_metrics[a].total_tasks = Cardinality(Outcomes(a))
    /\ agent_metrics[a].successful_tasks =
          Cardinality({t \in Outcomes(a) : Success(tasks[t].returned)})

\* C21 as stated: every completed dispatch to a capability increments that
\* capability's total_tasks by one and exactly one of successful_tasks and
\* failed_tasks.
C21_OriginalStep ==
    \A t \in active_tasks, b \in WorkerBehaviours :
        WorkerReturns(t, b) => Counted(tasks[t].agent_type, b)

C21_Original == [][C21_OriginalStep]_vars

\* C21, amended: every completed dispatch to a capability the orchestrator
\* keeps metrics for increments that capability's total_tasks by one and
\* exactly one of successful_tasks and failed_tasks (a dispatch to the
\* orchestrator's own type, which has no metrics, changes no counter); at
\* every moment total_tasks = successful_tasks + failed_tasks, and
\* total_tasks is the number of dispatches to that capability that have
\* produced an outcome, however the completions interleave.
C21_Step ==
    \A t \in active_tasks, b \in WorkerBehaviours :
        WorkerReturns(t, b)
        => IF tasks[t].agent_type \in DOMAIN agent_metrics
           THEN Counted(tasks[t].agent_type, b)
           ELSE agent_metrics' = agent_metrics

C21_CountersConserved ==
    /\ [](\A a \in DOMAIN agent_metrics : CountersAgree(a))
    /\ [][C21_Step]_vars

\* C21 witness: two dispatches to a monitored capability have completed, one
\* with success and one without, while another task is still with its worker.
C21_Witness ==
    /\ \E a \in DOMAIN agent_metrics :
          /\ agent_metrics[a].successful_tasks = 1
          /\ agent_metrics[a].failed_tasks = 1
          /\ Cardinality(Outcomes(a)) = 2
    /\ active_tasks # {}

\* The smaller of two integers.
Least(m, n) == IF m <= n THEN m ELSE n

\* C22: a capability with no processed task has total_tasks 0 and
\* health_score 1.0; after any completed dispatches its health_score is
\* min(1, success_rate * 1.2), success_rate being successful_tasks over
\* total_tasks (here: 5 * total * score = min(5 * total, 6 * successful));
\* the score is always within [0, 1].
C22_HealthScore ==
    \A a \in DOMAIN agent_metrics :
        LET M == agent_metrics[a]
        IN /\ Outcomes(a) = {}
                => M.total_tasks = 0 /\ M.health_score = <<1, 1>>
           /\ M.total_tasks > 0
                => M.health_score[1] * 5 * M.total_tasks =
                      M.health_score[2] * Least(5 * M.total_tasks, 6 * M.successful_tasks)
           /\ M.health_score[2] > 0
           /\ 0 <= M.health_score[1]
           /\ M.health_score[1] <= M.health_score[2]

\* C22 witness: five of six dispatches succeeded, so the boosted rate is 1.0
\* exactly while the success rate is below 1.
C22_Witness ==
    \E a \in DOMAIN agent_metrics :
        /\ agent_metrics[a].total_tasks = 6
        /\ agent_metrics[a].successful_tasks = 5
        /\ agent_metrics[a].health_score = <<1, 1>>

\* The sum of a sequence of numbers.
RECURSIVE Sum(_)
Sum(s) == IF s = <<>> THEN 0 ELSE Head(s) + Sum(Tail(s))

\* C23: after the outputs with processing times t1..tn the running average
\* of a capability is their arithmetic mean (t1 + ... + tn) / n, every
\* update having computed avg' = (avg * (n - 1) + new) / n; the times
\* [2.0, 4.0, 6.0] give 4.0.
C23_RunningMean ==
    \A a \in DOMAIN agent_metrics :
        LET M == agent_metrics[a]
        IN /\ Len(M.recorded) = M.total_tasks
           /\ M.avg_processing_time[2] > 0
           /\ M.total_tasks > 0
                => M.avg_processing_time[1] * M.total_tasks =
                      M.avg_processing_time[2] * Sum(M.recorded)
           /\ M.recorded = <<2, 4, 6>> => M.avg_processing_time = <<4, 1>>

\* C23 witness: the times 2.0, 4.0 and 6.0 were recorded, in this order.
C23_Witness ==
    \E a \in DOMAIN agent_metrics :
        /\ agent_metrics[a].recorded = <<2, 4, 6>>
        /\ agent_metrics[a].avg_processing_time = <<4, 1>>

\* ------------------------------------------------------------- requests
\* C24: a monitor_agents or get_queue_status request changes no task, no
\* workflow, no queue, no active set and no metric, and the counts it
\* reports are the sizes of the active set and of the queue at the call
\* (the queue details list the queued tasks in queue order).
C24_Step ==
    (response' # response /\ response'.op \in {"monitor_agents", "get_queue_status"})
    => /\ UNCHANGED <<tasks, task_queue, active_tasks, loop_ready, agents,
                      agent_metrics, workflows, total_workflows,
                      completed_workflows, failed_workflows>>
       /\ response'.success
       /\ response'.op = "monitor_agents"
            => /\ response'.result.orchestrator_stats.active_tasks = Cardinality(active_tasks)
               /\ response'.result.orchestrator_stats.queued_tasks = Len(task_queue)
               /\ \A a \in DOMAIN agent_metrics :
                     /\ response'.result.agent_metrics[a].total_tasks =
                           agent_metrics[a].total_tasks
                     /\ response'.result.agent_metrics[a].health_score =
                           agent_metrics[a].health_score
       /\ response'.op = "get_queue_status"
            => /\ response'.result.active_tasks = Cardinality(active_tasks)
               /\ response'.result.queued_tasks = Len(task_queue)
               /\ Len(response'.result.queue_details) = Len(task_queue)
               /\ \A i \in 1..Len(task_queue) :
                     response'.result.queue_details[i].task_id = task_queue[i]
               /\ {d.task_id : d \in response'.result.active_details} = active_tasks

C24_ReadOnly == [][C24_Step]_vars

\* C24 witness: get_queue_status has reported one active and one queued
\* task while a workflow is stored.
C24_Witness ==
    /\ response.op = "get_queue_status"
    /\ response.result.active_tasks = 1
    /\ response.result.queued_tasks = 1
    /\ active_tasks # {} /\ task_queue # <<>>
    /\ workflows # <<>>

\* The errors of a malformed request: a task type, an agent type or an
\* execution strategy that the orchestrator does not know.
MalformedErrors == {"unknown_type", "unknown_agent", "unknown_strategy"}

\* A workflow reaches the given terminal status in this step.
WorkflowEndsAs(status) ==
    \E w \in 1..Len(workflows') :
        /\ workflows'[w].status = status
        /\ w > Len(workflows) \/ workflows[w].status # status

\* C25 as stated: every request returns a structured result, and success is
\* false only for a malformed request (unknown request type, unknown
\* capability, unknown strategy), never because a task failed.
C25_OriginalStep ==
    response' # response
    => /\ response'.op \in {"delegate_task", "execute_workflow", "monitor_agents",
                            "get_queue_status", "cancel_task", "unknown"}
       /\ ~response'.success => response'.error \in MalformedErrors

C25_Original == [][C25_OriginalStep]_vars

\* C25, amended: every request (delegate, execute_workflow, monitor, queue
\* status, cancel, unknown type) returns a structured result and never
\* raises; success is false only for a malformed request (unknown request
\* type, unknown capability, unknown strategy) or for an execute_workflow
\* request whose workflow ended Failed (the failure of a task of a
\* sequential fail_fast workflow does that), and an execute_workflow
\* request whose workflow ended Failed always has success false; the
\* failure of a delegated task changes no response.
C25_Step ==
    /\ response' # response
       => /\ response'.op \in {"delegate_task", "execute_workflow", "monitor_agents",
                               "get_queue_status", "cancel_task", "unknown"}
          /\ response'.op \in {"monitor_agents", "get_queue_status", "cancel_task"}
                => response'.success
          /\ response'.op = "unknown"
                => ~response'.success /\ response'.error = "unknown_type"
          /\ response'.op = "delegate_task"
                => \/ response'.success /\ Len(tasks') = Len(tasks) + 1
                   \/ ~response'.success /\ response'.error = "unknown_agent"
                                         /\ tasks' = tasks
          /\ response'.op = "execute_workflow"
                => \/ response'.success /\ WorkflowEndsAs("completed")
                   \/ ~response'.success /\ response'.error = "unknown_agent"
                                         /\ workflows' = workflows
                   \/ ~response'.success /\ WorkflowEndsAs("failed")
    /\ WorkflowEndsAs("failed")
       => response' = response \/ (response'.op = "execute_workflow" /\ ~response'.success)
    /\ \A t \in active_tasks, b \in WorkerBehaviours :
          (tasks[t].parent_workflow_id = 0 /\ WorkerReturns(t, b))
          => response' = response

C25_StructuredResults == [][C25_Step]_vars

\* C25 witness: a delegated task has failed after its request returned
\* success, and an execute_workflow request has returned success false
\* because a task of its workflow failed.
C25_Witness ==
    /\ response = ErrorResponse("execute_workflow", "task_failed")
    /\ \E t \in TaskIds :
          tasks[t].parent_workflow_id = 0 /\ tasks[t].status = "failed"
    /\ \E w \in 1..Len(workflows) :
          /\ workflows[w].status = "failed"
          /\ FailedIn(workflows[w]) # {}

\* The request is answered with an error in this step, and the step leaves
\* the queue, the active set, the loop, the metrics, every task and every
\* workflow there was as they are; a task it constructs is left pending.
Rejected ==
    /\ response'.op = "execute_workflow"
    /\ ~response'.success
    /\ response'.error \in {"unknown_agent", "unknown_strategy"}
    /\ UNCHANGED <<task_queue, active_tasks, loop_ready, agents, agent_metrics>>
    /\ Len(workflows') >= Len(workflows)
    /\ \A w \in 1..Len(workflows) : workflows'[w] = workflows[w]
    /\ Len(tasks') >= Len(tasks)
    /\ \A t \in TaskIds : tasks'[t] = tasks[t]
    /\ \A t \in (Len(tasks) + 1)..Len(tasks') :
          tasks'[t].status = "pending" /\ tasks'[t].calls = 0

\* C26: an execute_workflow request that names an unknown capability or an
\* unknown execution strategy is answered with an error at once, dispatches
\* none of its tasks, then or later, and leaves the queue, the active set,
\* the metrics and all other workflows unchanged.
C26_Step ==
    LET answered == /\ response' # response
                    /\ response'.op = "execute_workflow"
                    /\ ~response'.success
                    /\ response'.error \in {"unknown_agent", "unknown_strategy"}
        stored == /\ Len(workflows') > Len(workflows)
                  /\ workflows'[Len(workflows')].execution_strategy
                        \notin {"sequential", "parallel"}
    IN /\ (answered \/ stored) => Rejected
       /\ (answered /\ response'.error = "unknown_agent")
            => UNCHANGED <<tasks, workflows, total_workflows,
                           completed_workflows, failed_workflows>>

C26_NeverDispatched ==
    /\ \A t \in TaskIds : tasks[t].agent_type \in AgentTypes
    /\ \A w \in 1..Len(workflows) :
          workflows[w].execution_strategy \notin {"sequential", "parallel"}
          => /\ workflows[w].status = "failed"
             /\ \A t \in TasksOf(w) : ~Begun(t) /\ tasks[t].status = "pending"

C26_MalformedRejected == [](C26_NeverDispatched) /\ [][C26_Step]_vars

\* C26 witness: a workflow with an unknown strategy is failed with its task
\* still pending, a request naming an unknown capability was just answered
\* with an error, and a task of a well-formed request is with its worker.
C26_Witness ==
    /\ response = ErrorResponse("execute_workflow", "unknown_agent")
    /\ \E w \in 1..Len(workflows) :
          /\ workflows[w].execution_strategy = "conditional"
          /\ workflows[w].status = "failed"
          /\ TasksOf(w) # {}
    /\ active_tasks # {}

Waiting(t) ==
    Cardinality({i \in 1..Len(task_queue) : task_queue[i] = t})
    + Cardinality({i \in 1..Len(loop_ready) : loop_ready[i] = <<"start", t>>})

\* C28: a task is handed to a worker at most once, and waits in at most one
\* place before that; a failed task is never put back on the queue nor
\* handed to a worker again, whatever its max_retries; retry_count stays 0.
C28_Once ==
    \A t \in TaskIds :
        /\ tasks[t].calls <= 1
        /\ tasks[t].retry_count = 0
        /\ Waiting(t) <= 1
        /\ Dispatched(t) => Waiting(t) = 0
        /\ tasks[t].status = "failed"
              => Waiting(t) = 0 /\ t \notin active_tasks /\ tasks[t].calls = 1

C28_Step ==
    \A t \in TaskIds :
        tasks[t].status = "failed" => tasks'[t] = tasks[t]

C28_NoRetry == [](C28_Once) /\ [][C28_Step]_vars

\* C28 witness: three delegated tasks, with no, one and three retries
\* allowed, have all failed after one call of the worker each.
C28_Witness ==
    \E t, u, v \in TaskIds :
        /\ tasks[t].max_retries = 0 /\ tasks[u].max_retries = 1
        /\ tasks[v].max_retries = DefaultMaxRetries
        /\ \A x \in {t, u, v} :
              /\ tasks[x].status = "failed"
              /\ tasks[x].calls = 1
              /\ tasks[x].retry_count = 0

\* ---------------------------------------------------------------- levels
\* The layer of task t in the dependency graph over the tasks S: layer 0 is
\* the tasks without dependencies, layer k + 1 the tasks outside the layers
\* up to k whose dependencies all lie in them.  done is the union of the
\* layers below k.
RECURSIVE LayerFrom(_, _, _, _)
LayerFrom(S, done, k, t) ==
    LET layer == {u \in S \ done : tasks[u].dependencies \subseteq done}
    IN IF t \in layer THEN k
       ELSE IF layer = {} THEN -1
       ELSE LayerFrom(S, done \cup layer, k + 1, t)

\* C29: for every acyclic dependency graph over the tasks of a workflow the
\* level computation ends, gives level 0 to each task without dependencies
\* and 1 + the largest level of its dependencies to every other task (the
\* layer of the task in the graph), and lists the tasks of each level in
\* declared order: A without dependencies, B depending on A and C without
\* dependencies give level 0 = [A, C] and level 1 = [B].
C29_Levels ==
    \A w \in DOMAIN workflows :
        (/\ workflows[w].execution_strategy = "parallel"
         /\ ~Cyclic(tasks, TasksOf(w))
         /\ \A t \in TasksOf(w) : tasks[t].dependencies \subseteq TasksOf(w))
        => LET W == workflows[w]
               S == TasksOf(w)
           IN /\ \A t \in S :
                    /\ LevelOf(w, t) = LayerFrom(S, {}, 0, t)
                    /\ tasks[t].dependencies = {} => LevelOf(w, t) = 0
                    /\ tasks[t].dependencies # {}
                          => /\ \A d \in tasks[t].dependencies : LevelOf(w, d) < LevelOf(w, t)
                             /\ \E d \in tasks[t].dependencies : LevelOf(w, d) + 1 = LevelOf(w, t)
              /\ \A k \in LevelKeys(tasks, W) :
                    LET L == LevelTasks(tasks, W, k)
                    IN /\ Range(L) = {t \in S : LevelOf(w, t) = k}
                       /\ \A i, j \in 1..Len(L) : i < j => L[i] < L[j]
              /\ (/\ W.tasks = <<1, 2, 3>>
                  /\ tasks[1].dependencies = {}
                  /\ tasks[2].dependencies = {1}
                  /\ tasks[3].dependencies = {})
                    => /\ LevelKeys(tasks, W) = {0, 1}
                       /\ LevelTasks(tasks, W, 0) = <<1, 3>>
                       /\ LevelTasks(tasks, W, 1) = <<2>>

\* C29 witness: the workflow of A, B depending on A, and C has run its level
\* 0 = [A, C] and is running its level 1 = [B].
C29_Witness ==
    \E w \in DOMAIN workflows :
        /\ workflows[w].tasks = <<1, 2, 3>>
        /\ tasks[1].dependencies = {}
        /\ tasks[2].dependencies = {1}
        /\ tasks[3].dependencies = {}
        /\ LevelTasks(tasks, workflows[w], 0) = <<1, 3>>
        /\ Finished(1) /\ Finished(3)
        /\ tasks[2].status = "running"

C31_Step ==
    (active_tasks' # active_tasks /\ active_tasks' \subseteq active_tasks)
    => \/ Cardinality(active_tasks') >= max_concurrent_tasks
       \/ FirstReady(task_queue', tasks', active_tasks') = 0

C31_CompletionDrains == [][C31_Step]_vars

\* C32: outside a workflow the dependency check holds a queued task back
\* exactly while one of its dependency ids is in the active set: in every
\* drain pass (of a delegate request or of the tick) that finds a free slot,
\* a queued task stays queued if and only if one of its dependency ids is
\* active; ids of queued, finished or unknown tasks do not hold it back.
C32_Step ==
    (MonitoringTick \/ Len(tasks') > Len(tasks))
    => \A t \in Queued \cup (DOMAIN tasks' \ TaskIds) :
          t \in Queued'
          <=> \/ Cardinality(active_tasks) >= max_concurrent_tasks
              \/ tasks'[t].dependencies \cap active_tasks # {}

C32_HeldByActiveOnly == [][C32_Step]_vars

\* C32 witness: a task that depends on itself, queued while no slot was
\* free, and a task whose dependency failed have both been handed to their
\* workers.
C32_Witness ==
    /\ \E t \in TaskIds : tasks[t].dependencies = {t} /\ Dispatched(t)
    /\ \E t \in TaskIds : \E d \in tasks[t].dependencies :
          /\ d \in TaskIds /\ d # t
          /\ tasks[d].status = "failed"
          /\ Dispatched(t)

\* ----------------------------------------------------- sequential order
\* C33: a sequential workflow dispatches its tasks in declared order, one at
\* a time: at most one of its tasks is running, a task is handed to its
\* worker only when every task dispatched before it has finished, and a
\* task that was passed over at its turn is never dispatched later.
C33_OneAtATime ==
    \A w \in DOMAIN workflows :
        IsSequential(w) =>
            /\ Cardinality(TasksOf(w) \cap active_tasks) <= 1
            /\ Cardinality({t \in TasksOf(w) : tasks[t].status = "running"}) <= 1
            /\ \A t, u \in TasksOf(w) :
                  (t < u /\ Dispatched(t) /\ Dispatched(u)) => Finished(t)

C33_Step ==
    \A w \in DOMAIN workflows :
        IsSequential(w) =>
            \A t, u \in TasksOf(w) :
                (t < u /\ Dispatched(u) /\ ~Dispatched(t))
                => tasks'[t].calls = 0

C33_DeclaredOrder == [](C33_OneAtATime) /\ [][C33_Step]_vars

\* C33 witness: a sequential workflow passed over its first task, whose
\* dependency is declared after it, ran the two tasks that follow one after
\* the other and completed.
C33_Witness ==
    \E w \in DOMAIN workflows :
        /\ IsSequential(w)
        /\ workflows[w].status = "completed"
        /\ \E t, u, v \in TasksOf(w) :
              /\ t < u /\ u < v
              /\ tasks[t].dependencies = {u}
              /\ ~Dispatched(t)
              /\ Dispatched(u) /\ Finished(u) /\ Success(tasks[u].returned)
              /\ Dispatched(v) /\ Finished(v)

\* ------------------------------------------------------------ the summary
\* C34: completed_tasks in the summary of execute_workflow is the number of
\* the workflow's tasks whose status is Completed, and total_tasks is the
\* number of its tasks.
C34_Step ==
    \A w \in DOMAIN workflows' :
        (/\ workflows'[w].status = "completed"
         /\ w \in DOMAIN workflows => workflows[w].status # "completed")
        => /\ response'.op = "execute_workflow" /\ response'.success
           /\ response'.result.total_tasks = Len(workflows'[w].tasks)
           /\ response'.result.completed_tasks =
                 Cardinality({t \in Range(workflows'[w].tasks) :
                                 tasks'[t].status = "completed"})

C34_CompletedTasks == [][C34_Step]_vars

\* ------------------------------------------------------------ shutdown
\* C35: the periodic tick stops on shutdown: once shutdown() has run, no
\* further pass of the monitoring loop takes place.
C35_Step == ~is_healthy => ~MonitoringTick

C35_NoTickAfterShutdown == [][C35_Step]_vars

\* ------------------------------------------------------------ accounting
\* C36: every task accepted by a delegate request that has not reached a
\* terminal status is in exactly one of the queue (Pending) and the active
\* set (Running), so that queued_tasks + active_tasks counts the accepted,
\* unfinished tasks.
C36_Accounted ==
    LET unfinished == {t \in TaskIds : /\ tasks[t].parent_workflow_id = 0
                                        /\ ~TerminalStatus(tasks[t].status)}
    IN /\ \A t \in unfinished :
            \/ t \in Queued /\ t \notin active_tasks /\ tasks[t].status = "pending"
            \/ t \in active_tasks /\ t \notin Queued /\ tasks[t].status = "running"
       /\ Len(task_queue) + Cardinality(active_tasks) = Cardinality(unfinished)

\* ------------------------------------------------------------ cancel
\* C37: a cancel request answers "not_found" only for a task that was never
\* accepted or that is already terminal: for every task accepted by a
\* delegate request and not yet terminal it answers "cancelled" or
\* "cancellation_requested".
C37_Step ==
    \A t \in TaskIds :
        (/\ tasks[t].parent_workflow_id = 0
         /\ ~TerminalStatus(tasks[t].status)
         /\ CancelTask(t))
        => response'.status \in {"cancelled", "cancellation_requested"}

C37_CancelFindsUnfinished == [][C37_Step]_vars

\* ------------------------------------------------------------ outcomes
\* C38: every task that a drain pass removed from the queue ends Completed
\* or Failed once its worker has returned or raised, and a task whose
\* capability has no registered worker at dispatch ends Failed: when the
\* coroutine of the task has ended, its status is Completed or Failed.
C38_DispatchedEnds ==
    \A t \in TaskIds :
        (/\ tasks[t].parent_workflow_id = 0
         /\ tasks[t].returned # "none")
        => tasks[t].status \in {"completed", "failed"}

\* ------------------------------------------------------------ counters
\* C39: in every state total_workflows is the sum of completed_workflows,
\* failed_workflows and the number of stored workflows that are Running, and
\* every stored workflow that is not Running is Completed or Failed.
C39_CountersBalance ==
    /\ total_workflows =
          completed_workflows + failed_workflows
          + Cardinality({w \in DOMAIN workflows :
                            workflows[w].stored /\ workflows[w].status = "running"})
    /\ \A w \in DOMAIN workflows :
          workflows[w].stored
          => workflows[w].status \in {"running", "completed", "failed"}

\* C39 witness: of three workflows one completed and was removed by the
\* monitoring loop, one failed and one is running.
C39_Witness ==
    /\ total_workflows = 3
    /\ \E u, v, w \in DOMAIN workflows :
          /\ ~workflows[u].stored /\ workflows[u].status = "completed"
          /\ workflows[v].stored /\ workflows[v].status = "failed"
          /\ workflows[w].stored /\ workflows[w].status = "running"

\* ------------------------------------------------------------ strategies
\* The task definitions workflow w was built from: dependency ids by the
\* position of the task they name, 0 for an id that names no task.
DefinitionOf(w) ==
    LET base == IF workflows[w].tasks = <<>> THEN 0
                ELSE workflows[w].tasks[1] - 1
    IN [i \in 1..Len(workflows[w].tasks) |->
          [agent_type |-> tasks[workflows[w].tasks[i]].agent_type,
           dependencies |-> {IF d = 0 THEN 0 ELSE d - base :
                                d \in tasks[workflows[w].tasks[i]].dependencies}]]

\* The positions of the tasks of workflow w that were handed to a worker.
DispatchedOf(w) ==
    {i \in 1..Len(workflows[w].tasks) : Dispatched(workflows[w].tasks[i])}

\* C40: with workers that all succeed, a sequential and a parallel workflow
\* built from the same definition hand the same tasks to workers and end in
\* the same status, whatever the declared order of the tasks and whether or
\* not every dependency id names a task of the workflow.
C40_StrategiesAgree ==
    \A u, v \in DOMAIN workflows :
        (/\ IsSequential(u) /\ IsParallel(v)
         /\ Terminal(workflows[u]) /\ Terminal(workflows[v])
         /\ DefinitionOf(u) = DefinitionOf(v))
        => /\ DispatchedOf(u) = DispatchedOf(v)
           /\ workflows[u].status = workflows[v].status

====
